---- MODULE Spec2Model ----
(***************************************************************************)
(* A model of github.com/shivanshkc/llmb.                                  *)
(*                                                                         *)
(*   SpecBench / FairBench : pkg/bench  runStreams, BenchmarkStream        *)
(*   SpecSSE   / FairSSE   : pkg/httpx  ReadServerSentEvents               *)
(*   SpecStream            : pkg/streams  New, Map, NextContext, Exhaust   *)
(*   SpecRetry             : pkg/httpx  RetryClient.DoRetry                *)
(*   SpecApi               : pkg/api  Client.ChatCompletionStream          *)
(*                                                                         *)
(* Every goroutine is a process with a program counter; a channel is a     *)
(* sequence plus a "closed" flag; a Go select with several ready cases is  *)
(* a nondeterministic choice between them.                                 *)
(***************************************************************************)
EXTENDS Integers, Sequences, FiniteSets, TLC

\* ------------------------------------------------------------------ bounds
\* Largest requestCount and concurrency explored (-1 stands for "negative").
MaxN == 2
MaxC == 2
\* Largest number of lines in a response body.
MaxLines == 3
\* Capacity of the event channel explored (sse.go makes it with 100; the
\* producer blocks in the same way at any capacity).
EventChanCap == 2
\* Largest number of items sent to a stream's source channel, and of
\* NextContext calls a consumer makes.
MaxItems == 2
MaxCalls == 3
\* Largest maxAttempts given to DoRetry.
MaxAttempts == 3
\* Largest number of events the reader hands to ChatCompletionStream.
MaxRaw == 2
MaxSamples == 5
MaxDur == 5
MaxRamp == 21
\* Largest number of events one run drains.
MaxEvents == 3

VARIABLES
    \* ---- pkg/bench: runStreams
    N,              \* requestCount
    C,              \* concurrency
    mainPc,         \* "start" | "collect" | "errcheck" | "done" | "panic"
    extCancelled,   \* the caller-supplied context is cancelled
    cancelCalled,   \* cancel() of the derived context has been called
    timingsChan,    \* buffered channel of timings (capacity N)
    timingsClosed,
    errChan,        \* buffered channel of errors (capacity 1)
    errClosed,
    sem,            \* len(semaphore): permits currently held
    wg,             \* WaitGroup counter
    spawnI,         \* loop variable i of the spawner goroutine
    closerPc,       \* "idle" | "wait" | "closeErr" | "done"
    wpc,            \* worker i: program counter
    wres,           \* worker i: what runOneStream returned
    timingsArr,     \* timings collected by the main goroutine
    reports,        \* history: runs in the order they executed the error select
    retTimings,     \* runStreams' first return value
    retErr,         \* BenchmarkStream's error
    results         \* BenchmarkStream's StreamBenchmarkResults

VARIABLES
    \* ---- pkg/httpx: ReadServerSentEvents
    body,           \* the response body: the lines ReadString('\n') will return
    tail,           \* what a read past the last line does: "eof" | "err" | "block"
    sseCancelled,   \* the caller's ctx is cancelled
    prodCancelled,  \* the producer's deferred cancel() has run
    closeCount,     \* number of body.Close() calls
    watcherPc,      \* "wait" | "done"
    prodPc,         \* "read" | "send" | "cancel" | "closeChan" | "done"
    index,          \* the producer's loop variable
    pending,        \* the event the producer is about to send
    eventChan,      \* buffered channel of events
    chanClosed,
    emitted,        \* history: every event sent on eventChan, in order
    recvCount,      \* number of events the consumer has received
    consPc,         \* "pull" | "exhausted" | "cancelled"
    lastRead        \* history: what the last ReadString returned, and ctx.Err() then

sseVars == <<body, tail, sseCancelled, prodCancelled, closeCount, watcherPc, prodPc,
             index, pending, eventChan, chanClosed, emitted, recvCount, consPc,
             lastRead>>

VARIABLES
    \* ---- pkg/streams: a Stream over a channel, behind a chain of Map stages
    chain,          \* the conversions of the Map stages, innermost first
    srcChan,        \* the source channel: items ready to be received
    srcClosed,
    fed,            \* history: every item sent on the source channel
    stCancelled,    \* the ctx given to NextContext / Exhaust is cancelled
    stPc,           \* "new" | "ready": the stream has been constructed
    outcomes,       \* history: what each next on the outermost stream returned
    srcOutcomes,    \* history: what each next on the streams.New stream returned
    exPc,           \* Exhaust: "idle" | "loop" | "done"
    exStart,        \* Len(outcomes) when Exhaust was called
    exItems,        \* Exhaust's local slice
    exRet           \* what Exhaust returned

streamVars == <<chain, srcChan, srcClosed, fed, stCancelled, stPc, outcomes,
                srcOutcomes, exPc, exStart, exItems, exRet>>

VARIABLES
    \* ---- pkg/httpx: RetryClient.DoRetry
    rtMax,          \* maxAttempts
    rtHasGetBody,   \* req.GetBody != nil
    rtCancelled,    \* the request's ctx is cancelled
    rtPc,           \* "idle" | "entry" | "attempt" | "timer" | "parked" | "done"
    rtI,            \* the loop variable i
    exchanges,      \* history: what each rc.Do returned
    rtWaits,        \* history: number of timers created
    timerFired,     \* the current timer has expired (timer.C is ready)
    errFinal,       \* the local errFinal
    rtRet,          \* what DoRetry returned
    cancelAt,       \* history: where DoRetry was when the ctx was cancelled
    gbCalls         \* history: number of req.GetBody() calls

retryVars == <<rtMax, rtHasGetBody, rtCancelled, rtPc, rtI, exchanges, rtWaits,
               timerFired, errFinal, rtRet, cancelAt, gbCalls>>

VARIABLES
    \* ---- pkg/api: Client.ChatCompletionStream
    apiPc,          \* "idle" | "retry" | "stream" | "done"
    apiRet,         \* what ChatCompletionStream returned
    readerStarted,  \* ReadServerSentEvents has been called on the response body
    apiRaw,         \* the events the reader sends, in order
    rawNext,        \* number of them sent so far
    sseChan,        \* the reader's channel
    sseChanClosed,
    convPc,         \* converter goroutine: "idle" | "recv" | "send" | "closeBody" | "closeChan" | "done"
    convPending,    \* the ChatCompletionEvent about to be sent
    apiChan,        \* the channel ChatCompletionStream returns
    apiChanClosed,
    delivered,      \* history: every event sent on apiChan
    apiRecv,        \* number of events the caller has received
    bodyCloses,     \* number of Close calls made on the response body
    readerClosed    \* the reader's watcher has run closeBody

apiVars == <<apiPc, apiRet, readerStarted, apiRaw, rawNext, sseChan, sseChanClosed,
             convPc, convPending, apiChan, apiChanClosed, delivered, apiRecv,
             bodyCloses, readerClosed>>

httpVars == <<retryVars, apiVars>>

\* ----- pkg/bench: one computation of the statistics
VARIABLES
    stsPc,          \* "idle" | "metrics" | "series" | "done"
    stsIn,          \* the durations Metrics is called on
    stsArr,         \* the timingsArray TTFTs, TBTs and TTs are called on
    stsMetrics,     \* what Metrics returned
    stsSeries,      \* what TTFTs, TBTs and TTs returned
    stsEvents,      \* the events Exhaust returned to runOneStream, in arrival order
    stsTiming,      \* the timings runOneStream returned
    stsResults      \* the StreamBenchmarkResults built from stsArr

statsVars == <<stsPc, stsIn, stsArr, stsMetrics, stsSeries, stsEvents, stsTiming,
               stsResults>>

benchVars == <<N, C, mainPc, extCancelled, cancelCalled, timingsChan, timingsClosed,
               errChan, errClosed, sem, wg, spawnI, closerPc, wpc, wres,
               timingsArr, reports, retTimings, retErr, results>>

vars == <<benchVars, sseVars, streamVars, httpVars, statsVars>>

\* ------------------------------------------------------------ small helpers
\* a nil error, a nil timingsArray, and "runOneStream has not returned yet"
NoErr == [nil |-> TRUE]
NilTimings == [isNil |-> TRUE, arr |-> <<>>]
None == [tag |-> "none"]

\* a non-nil timingsArray
SomeTimings(arr) == [isNil |-> FALSE, arr |-> arr]

\* what runOneStream returned
Ok(t) == [tag |-> "ok", timing |-> t]
Failed(e) == [tag |-> "err", err |-> e]

Runs == 1..MaxN

\* ctx.Done() of the derived context: the parent is cancelled or cancel() ran.
CtxDone == extCancelled \/ cancelCalled

\* fmt.Errorf("...: %w", err)
Wrap(msg, err) == [msg |-> msg, cause |-> err]

\* Go's integer division truncates toward zero.
TruncDiv(a, b) ==
    IF a >= 0 THEN a \div b ELSE -((-a) \div b)

RECURSIVE SumSeq(_)
SumSeq(s) == IF s = <<>> THEN 0 ELSE Head(s) + SumSeq(Tail(s))

\* insert x into the ascending sequence s, after the elements not greater
RECURSIVE InsertAsc(_, _)
InsertAsc(x, s) ==
    IF s = <<>> THEN <<x>>
    ELSE IF x < Head(s) THEN <<x>> \o s
    ELSE <<Head(s)>> \o InsertAsc(x, Tail(s))

\* A sort that leaves the slice as it is (the mutant of SortAsc)
SortAscNone(s) == s

\* sort.Slice(sorted, func(i, j) bool { return sorted[i] < sorted[j] })
RECURSIVE SortAsc(_)
SortAsc(s) == IF s = <<>> THEN <<>> ELSE InsertAsc(s[Len(s)], SortAsc(SubSeq(s, 1, Len(s) - 1)))

\* ------------------------------------------------- pkg/bench: statistics
ZeroMetrics == [Avg |-> 0, Min |-> 0, Med |-> 0, Max |-> 0, P90 |-> 0, P95 |-> 0]

\* An average that is not divided by the count (the mutant of average)
averageSum(ds) == SumSeq(ds)

\* durations.average
average(ds) == IF Len(ds) = 0 THEN 0 ELSE TruncDiv(SumSeq(ds), Len(ds))

\* A median that takes the upper of the two central elements (the mutant of
\* median)
medianUpper(ds) == ds[(Len(ds) \div 2) + 1]

\* durations.median: the receiver is sorted and not empty
median(ds) ==
    LET mid == Len(ds) \div 2    \* zero-based index
    IN  IF Len(ds) % 2 = 0
        THEN TruncDiv(ds[mid] + ds[mid + 1], 2)
        ELSE ds[mid + 1]

\* A percentile that rounds the rank up (the mutant of percentile)
percentileCeil(ds, p) == ds[(((Len(ds) - 1) * p + 99) \div 100) + 1]

\* durations.percentile: the receiver is sorted and not empty.
\* index := int(float64(len(ds)-1) * (percentile / 100.0))
percentile(ds, p) ==
    LET q == IF p < 0 THEN 0 ELSE IF p > 100 THEN 100 ELSE p
        idx == ((Len(ds) - 1) * q) \div 100
    IN  ds[idx + 1]

\* durations.Metrics
Metrics(ds) ==
    IF Len(ds) = 0 THEN ZeroMetrics
    ELSE LET sorted == SortAsc(ds)
         IN  [Avg |-> average(ds),
              Min |-> sorted[1],
              Med |-> median(sorted),
              Max |-> sorted[Len(sorted)],
              P90 |-> percentile(sorted, 90),
              P95 |-> percentile(sorted, 95)]

\* A TTFTs with a value for every run, zero for a run without events (the
\* mutant of TTFTs)
TTFTsEveryRun(a) ==
    [i \in 1..Len(a) |-> IF Len(a[i].Events) > 0 THEN a[i].Events[1] - a[i].Start ELSE 0]

\* timingsArray.TTFTs: one value per run that has at least one event
RECURSIVE TTFTs(_)
TTFTs(a) ==
    IF a = <<>> THEN <<>>
    ELSE (IF Len(Head(a).Events) > 0
             THEN <<Head(a).Events[1] - Head(a).Start>>
             ELSE <<>>) \o TTFTs(Tail(a))

\* An inner loop that also takes the difference between the first event and
\* what precedes it (the mutant of TBTsOfRun)
TBTsOfRunFromStart(t) ==
    [i \in 1..Len(t.Events) |->
        t.Events[i] - (IF i = 1 THEN t.Start ELSE t.Events[i - 1])]

\* the inner loop of timingsArray.TBTs for one run
TBTsOfRun(t) == [i \in 1..(IF Len(t.Events) > 1 THEN Len(t.Events) - 1 ELSE 0) |->
                    t.Events[i + 1] - t.Events[i]]

\* timingsArray.TBTs (Go returns a nil slice when there is no value: the same
\* empty list to every reader)
RECURSIVE TBTs(_)
TBTs(a) == IF a = <<>> THEN <<>> ELSE TBTsOfRun(Head(a)) \o TBTs(Tail(a))

\* timingsArray.TTs
TTs(a) == [i \in 1..Len(a) |-> a[i].End - a[i].Start]

ZeroResults == [TTFT |-> ZeroMetrics, TBT |-> ZeroMetrics, TT |-> ZeroMetrics]

\* BenchmarkStream's success return
ResultsOf(arr) ==
    [TTFT |-> Metrics(TTFTs(arr)), TBT |-> Metrics(TBTs(arr)), TT |-> Metrics(TTs(arr))]

\* ------------------------------------------------ pkg/bench: runOneStream
\* An event of a drained stream, as bench.Event shows it.
Ev(i, t) == [index |-> i, ts |-> t]

\* insert e into s (ascending by index) after every element of index <= e.index
RECURSIVE InsertByIndex(_, _)
InsertByIndex(e, s) ==
    IF s = <<>> THEN <<e>>
    ELSE IF e.index < Head(s).index THEN <<e>> \o s
    ELSE <<Head(s)>> \o InsertByIndex(e, Tail(s))

\* sort.SliceStable(events, func(i, j) bool { return events[i].Index() < events[j].Index() })
RECURSIVE SortByIndex(_)
SortByIndex(s) ==
    IF s = <<>> THEN <<>>
    ELSE InsertByIndex(s[Len(s)], SortByIndex(SubSeq(s, 1, Len(s) - 1)))

\* What the factory's stream delivers to Exhaust in a run: nothing, or two
\* events that arrive out of index order.
DrainChoices == { <<>>, <<Ev(1, 2), Ev(0, 1)>> }

\* A runOneStream that keeps the events in their arrival order (the mutant
\* of TimingOf)
TimingOfArrival(events) ==
    [Start |-> 0, End |-> 3, Events |-> [i \in 1..Len(events) |-> events[i].ts]]

\* runOneStream's success value for the drained events (Start = 0, End = 3)
TimingOf(events) ==
    LET sorted == SortByIndex(events)
    IN  [Start |-> 0, End |-> 3, Events |-> [i \in 1..Len(sorted) |-> sorted[i].ts]]

\* -------------------------------------------------- pkg/bench: runStreams
\* The errors a run can end with.  A cancellation error is ctx.Err().
FactoryErr(i) == [kind |-> "factory", run |-> i]
DrainErr(i)   == [kind |-> "drain", run |-> i]
CancelErr     == [kind |-> "cancel", run |-> 0]

\* No ReadServerSentEvents call is in progress.
SSEIdle ==
    /\ body = <<>> /\ tail = "eof"
    /\ sseCancelled = FALSE /\ prodCancelled = FALSE
    /\ closeCount = 0
    /\ watcherPc = "done" /\ prodPc = "done"
    /\ index = 0 /\ pending = [Index |-> 0, Value |-> <<>>, Error |-> "nil"]
    /\ eventChan = <<>> /\ chanClosed = FALSE
    /\ emitted = <<>>
    /\ recvCount = 0 /\ consPc = "exhausted"
    /\ lastRead = [data |-> <<>>, err |-> "nil", cancelled |-> FALSE]

\* No stream of pkg/streams is in use.
StreamIdle ==
    /\ chain = <<>> /\ srcChan = <<>> /\ srcClosed = TRUE /\ fed = <<>>
    /\ stCancelled = FALSE /\ stPc = "ready"
    /\ outcomes = <<>> /\ srcOutcomes = <<>>
    /\ exPc = "done" /\ exStart = 0 /\ exItems = <<>>
    /\ exRet = [isNil |-> TRUE, items |-> <<>>, err |-> "nil"]

\* A nil error, a nil *http.Response, and a ChatCompletionEvent not yet built.
NilError == [kind |-> "nil", n |-> 0, last |-> 0, body |-> ""]
NilResponse == [status |-> 0, attempt |-> 0, body |-> ""]
NoEvent == [index |-> 0, timestamp |-> 0, content |-> "", err |-> "nil"]

\* No DoRetry call is in progress.
RetryIdle ==
    /\ rtMax = 0 /\ rtHasGetBody = TRUE /\ rtCancelled = FALSE
    /\ rtPc = "idle" /\ rtI = 0 /\ exchanges = <<>> /\ rtWaits = 0 /\ gbCalls = 0
    /\ timerFired = FALSE /\ errFinal = NilError
    /\ rtRet = [resp |-> NilResponse, err |-> NilError]
    /\ cancelAt = [where |-> "none", done |-> 0]

\* No ChatCompletionStream call is in progress.
ApiIdle ==
    /\ apiPc = "idle"
    /\ apiRet = [stream |-> FALSE, err |-> NilError]
    /\ readerStarted = FALSE
    /\ apiRaw = <<>> /\ rawNext = 0
    /\ sseChan = <<>> /\ sseChanClosed = FALSE
    /\ convPc = "idle" /\ convPending = NoEvent
    /\ apiChan = <<>> /\ apiChanClosed = FALSE
    /\ delivered = <<>> /\ apiRecv = 0
    /\ bodyCloses = 0 /\ readerClosed = FALSE

HttpIdle == RetryIdle /\ ApiIdle

NoSeries == [TTFT |-> <<>>, TBT |-> <<>>, TT |-> <<>>]
NoTiming == [Start |-> 0, End |-> 0, Events |-> <<>>]

\* No statistics are being computed.
StatsIdle ==
    /\ stsPc = "idle"
    /\ stsIn = <<>> /\ stsArr = <<>>
    /\ stsMetrics = ZeroMetrics
    /\ stsSeries = NoSeries
    /\ stsEvents = <<>>
    /\ stsTiming = NoTiming
    /\ stsResults = ZeroResults

InitBench ==
    /\ StatsIdle
    /\ SSEIdle
    /\ StreamIdle
    /\ HttpIdle
    /\ N \in -1..MaxN
    /\ C \in -1..MaxC
    /\ mainPc = "start"
    /\ extCancelled \in BOOLEAN       \* the caller may pass a cancelled context
    /\ cancelCalled = FALSE
    /\ timingsChan = <<>> /\ timingsClosed = FALSE
    /\ errChan = <<>> /\ errClosed = FALSE
    /\ sem = 0
    /\ wg = 0
    /\ spawnI = 0
    /\ closerPc = "idle"
    /\ wpc = [i \in Runs |-> "idle"]
    /\ wres = [i \in Runs |-> None]
    /\ timingsArr = <<>>
    /\ reports = <<>>
    /\ retTimings = NilTimings
    /\ retErr = NoErr
    /\ results = ZeroResults

\* runStreams up to the collecting loop: the derived context, the three
\* channels, wg.Add(requestCount) and the two `go` statements.  make(chan T, n)
\* panics for n < 0.
MainEnter ==
    /\ mainPc = "start"
    /\ IF N < 0 \/ C < 0
       THEN /\ mainPc' = "panic"
            /\ UNCHANGED <<wg, closerPc>>
       ELSE /\ mainPc' = "collect"
            /\ wg' = N
            /\ closerPc' = "wait"
    /\ UNCHANGED <<statsVars, httpVars, streamVars, sseVars, N, C, extCancelled, cancelCalled, timingsChan, timingsClosed, errChan,
                   errClosed, sem, spawnI, wpc, wres, timingsArr, reports, retTimings,
                   retErr, results>>

\* The goroutines exist once runStreams has launched them.
Launched == mainPc \in {"collect", "errcheck", "done"}

\* The caller cancels the context it supplied.
ExtCancel ==
    /\ mainPc # "done" /\ mainPc # "panic"
    /\ ~extCancelled
    /\ extCancelled' = TRUE
    /\ UNCHANGED <<statsVars, httpVars, streamVars, sseVars, N, C, mainPc, cancelCalled, timingsChan, timingsClosed, errChan,
                   errClosed, sem, wg, spawnI, closerPc, wpc, wres, timingsArr, reports,
                   retTimings, retErr, results>>

\* ---- the spawner goroutine
\* A skip that does not count the run as finished (the mutant of SpawnerSkip)
SpawnerSkipNoDone ==
    /\ Launched /\ spawnI < N
    /\ CtxDone
    /\ spawnI' = spawnI + 1
    /\ UNCHANGED <<statsVars, httpVars, streamVars, sseVars, N, C, mainPc, extCancelled,
                   cancelCalled, timingsChan, timingsClosed, errChan, errClosed, sem, wg,
                   closerPc, wpc, wres, timingsArr, reports, retTimings, retErr, results>>

\* `case <-ctx.Done()` of the spawner's select: wg.Done() for the run that is
\* never launched, then continue.
SpawnerSkip ==
    /\ Launched /\ spawnI < N
    /\ CtxDone
    /\ wg' = wg - 1
    /\ spawnI' = spawnI + 1
    /\ UNCHANGED <<statsVars, httpVars, streamVars, sseVars, N, C, mainPc, extCancelled, cancelCalled, timingsChan, timingsClosed,
                   errChan, errClosed, sem, closerPc, wpc, wres, timingsArr, reports,
                   retTimings, retErr, results>>

\* `semaphore <- struct{}{}` can proceed: the buffer has room.
CanAcquireOffByOne == sem <= C
CanAcquire == sem < C

\* `case semaphore <- struct{}{}` of the spawner's select, then `go func()`.
\* The select does not look at ctx.Done() once this case is chosen.
SpawnerLaunch ==
    /\ Launched /\ spawnI < N
    /\ CanAcquire
    /\ sem' = sem + 1
    /\ wpc' = [wpc EXCEPT ![spawnI + 1] = "started"]
    /\ spawnI' = spawnI + 1
    /\ UNCHANGED <<statsVars, httpVars, streamVars, sseVars, N, C, mainPc, extCancelled, cancelCalled, timingsChan, timingsClosed,
                   errChan, errClosed, wg, closerPc, wres, timingsArr, reports,
                   retTimings, retErr, results>>

\* ---- worker i
\* runOneStream: funk(ctx).  The factory fails, or (given a cancelled context)
\* reports the cancellation, or returns a stream.
WorkerFactory(i) ==
    /\ wpc[i] = "started"
    /\ \/ /\ wpc' = [wpc EXCEPT ![i] = "draining"]
          /\ UNCHANGED wres
       \/ /\ wpc' = [wpc EXCEPT ![i] = "failed"]
          /\ \E e \in {FactoryErr(i)} \cup (IF CtxDone THEN {CancelErr} ELSE {}) :
                wres' = [wres EXCEPT ![i] = Failed(Wrap("failed to start stream", e))]
    /\ UNCHANGED <<statsVars, httpVars, streamVars, sseVars, N, C, mainPc, extCancelled, cancelCalled, timingsChan, timingsClosed,
                   errChan, errClosed, sem, wg, spawnI, closerPc, timingsArr, reports,
                   retTimings, retErr, results>>

\* runOneStream: eventStream.Exhaust(ctx), then the sort and the timestamps.
WorkerDrain(i) ==
    /\ wpc[i] = "draining"
    /\ \/ /\ wpc' = [wpc EXCEPT ![i] = "ok"]
          /\ \E evs \in DrainChoices : wres' = [wres EXCEPT ![i] = Ok(TimingOf(evs))]
       \/ /\ wpc' = [wpc EXCEPT ![i] = "failed"]
          /\ \E e \in {DrainErr(i)} \cup (IF CtxDone THEN {CancelErr} ELSE {}) :
                wres' = [wres EXCEPT ![i] = Failed(Wrap("failed to exhaust stream", e))]
    /\ UNCHANGED <<statsVars, httpVars, streamVars, sseVars, N, C, mainPc, extCancelled, cancelCalled, timingsChan, timingsClosed,
                   errChan, errClosed, sem, wg, spawnI, closerPc, timingsArr, reports,
                   retTimings, retErr, results>>

\* A later error replaces the one in the slot (the mutant of WorkerReportErr).
WorkerReportErrOverwrite(i) ==
    /\ wpc[i] = "failed"
    /\ reports' = Append(reports, i)
    /\ errChan' = <<wres[i].err>>
    /\ wpc' = [wpc EXCEPT ![i] = "claimed"]
    /\ UNCHANGED <<statsVars, httpVars, streamVars, sseVars, N, C, mainPc, extCancelled, cancelCalled, timingsChan, timingsClosed,
                   errClosed, sem, wg, spawnI, closerPc, wres, timingsArr,
                   retTimings, retErr, results>>

\* A failed worker that also sends a timing (the mutant of
\* WorkerReportErr)
WorkerFailAndPublish(i) ==
    /\ wpc[i] = "failed"
    /\ reports' = Append(reports, i)
    /\ errChan' = IF Len(errChan) < 1 /\ ~errClosed THEN Append(errChan, wres[i].err)
                  ELSE errChan
    /\ timingsChan' = Append(timingsChan, NoTiming)
    /\ wpc' = [wpc EXCEPT ![i] = "reported"]
    /\ UNCHANGED <<statsVars, httpVars, streamVars, sseVars, N, C, mainPc, extCancelled,
                   cancelCalled, timingsClosed, errClosed, sem, wg, spawnI, closerPc, wres,
                   timingsArr, retTimings, retErr, results>>

\* select { case errChan <- err: ... default: }
WorkerReportErr(i) ==
    /\ wpc[i] = "failed"
    /\ reports' = Append(reports, i)
    /\ IF Len(errChan) < 1 /\ ~errClosed
       THEN /\ errChan' = Append(errChan, wres[i].err)
            /\ wpc' = [wpc EXCEPT ![i] = "claimed"]
       ELSE /\ errChan' = errChan
            /\ wpc' = [wpc EXCEPT ![i] = "reported"]
    /\ UNCHANGED <<statsVars, httpVars, streamVars, sseVars, N, C, mainPc, extCancelled, cancelCalled, timingsChan, timingsClosed,
                   errClosed, sem, wg, spawnI, closerPc, wres, timingsArr,
                   retTimings, retErr, results>>

\* cancel() in the branch that claimed the error slot
WorkerCancel(i) ==
    /\ wpc[i] = "claimed"
    /\ cancelCalled' = TRUE
    /\ wpc' = [wpc EXCEPT ![i] = "reported"]
    /\ UNCHANGED <<statsVars, httpVars, streamVars, sseVars, N, C, mainPc, extCancelled, timingsChan, timingsClosed, errChan,
                   errClosed, sem, wg, spawnI, closerPc, wres, timingsArr, reports,
                   retTimings, retErr, results>>

\* timingsChan <- t  (blocks only when the buffer of requestCount is full)
WorkerPublish(i) ==
    /\ wpc[i] = "ok"
    /\ Len(timingsChan) < N /\ ~timingsClosed
    /\ timingsChan' = Append(timingsChan, wres[i].timing)
    /\ wpc' = [wpc EXCEPT ![i] = "reported"]
    /\ UNCHANGED <<statsVars, httpVars, streamVars, sseVars, N, C, mainPc, extCancelled, cancelCalled, timingsClosed, errChan,
                   errClosed, sem, wg, spawnI, closerPc, wres, timingsArr, reports,
                   retTimings, retErr, results>>

\* defer wg.Done(): registered last, so it runs first
WorkerWgDone(i) ==
    /\ wpc[i] = "reported"
    /\ wg' = wg - 1
    /\ wpc' = [wpc EXCEPT ![i] = "wgdone"]
    /\ UNCHANGED <<statsVars, httpVars, streamVars, sseVars, N, C, mainPc, extCancelled, cancelCalled, timingsChan, timingsClosed,
                   errChan, errClosed, sem, spawnI, closerPc, wres, timingsArr, reports,
                   retTimings, retErr, results>>

\* A worker that gives its permit back while it is still draining (the
\* mutant of WorkerRelease)
WorkerReleaseEarly(i) ==
    /\ wpc[i] \in {"draining", "wgdone"}
    /\ sem > 0
    /\ sem' = sem - 1
    /\ wpc' = [wpc EXCEPT ![i] = IF wpc[i] = "wgdone" THEN "released" ELSE "ok"]
    /\ wres' = [wres EXCEPT ![i] = IF wpc[i] = "wgdone" THEN @ ELSE Ok(TimingOf(<<>>))]
    /\ UNCHANGED <<statsVars, httpVars, streamVars, sseVars, N, C, mainPc, extCancelled,
                   cancelCalled, timingsChan, timingsClosed, errChan, errClosed, wg, spawnI,
                   closerPc, timingsArr, reports, retTimings, retErr, results>>

\* defer func() { <-semaphore }(): registered first, so it runs last
WorkerRelease(i) ==
    /\ wpc[i] = "wgdone"
    /\ sem > 0
    /\ sem' = sem - 1
    /\ wpc' = [wpc EXCEPT ![i] = "released"]
    /\ UNCHANGED <<statsVars, httpVars, streamVars, sseVars, N, C, mainPc, extCancelled, cancelCalled, timingsChan, timingsClosed,
                   errChan, errClosed, wg, spawnI, closerPc, wres, timingsArr, reports,
                   retTimings, retErr, results>>

\* ---- the closer goroutine
\* wg.Wait(); close(timingsChan)
CloserWait ==
    /\ closerPc = "wait"
    /\ wg = 0
    /\ timingsClosed' = TRUE
    /\ closerPc' = "closeErr"
    /\ UNCHANGED <<statsVars, httpVars, streamVars, sseVars, N, C, mainPc, extCancelled, cancelCalled, timingsChan, errChan,
                   errClosed, sem, wg, spawnI, wpc, wres, timingsArr, reports,
                   retTimings, retErr, results>>

\* The closer ends without close(errChan) (the mutant of CloserCloseErr).
CloserCloseErrMissing ==
    /\ closerPc = "closeErr"
    /\ closerPc' = "done"
    /\ UNCHANGED <<statsVars, httpVars, streamVars, sseVars, N, C, mainPc, extCancelled, cancelCalled, timingsChan, timingsClosed,
                   errChan, errClosed, sem, wg, spawnI, wpc, wres, timingsArr, reports,
                   retTimings, retErr, results>>

\* close(errChan)
CloserCloseErr ==
    /\ closerPc = "closeErr"
    /\ errClosed' = TRUE
    /\ closerPc' = "done"
    /\ UNCHANGED <<statsVars, httpVars, streamVars, sseVars, N, C, mainPc, extCancelled, cancelCalled, timingsChan, timingsClosed,
                   errChan, sem, wg, spawnI, wpc, wres, timingsArr, reports,
                   retTimings, retErr, results>>

\* ---- the main goroutine
\* for t := range timingsChan { timingsArr = append(timingsArr, t) }
MainCollect ==
    /\ mainPc = "collect"
    /\ IF timingsChan # <<>>
       THEN /\ timingsArr' = Append(timingsArr, Head(timingsChan))
            /\ timingsChan' = Tail(timingsChan)
            /\ mainPc' = mainPc
       ELSE /\ timingsClosed
            /\ mainPc' = "errcheck"
            /\ UNCHANGED <<timingsArr, timingsChan>>
    /\ UNCHANGED <<statsVars, httpVars, streamVars, sseVars, N, C, extCancelled, cancelCalled, timingsClosed, errChan, errClosed,
                   sem, wg, spawnI, closerPc, wpc, wres, reports, retTimings, retErr,
                   results>>

\* The error check returns the collected timings with the error (the mutant
\* of MainReturn).
MainReturnPartial ==
    /\ mainPc = "errcheck"
    /\ errChan # <<>> \/ errClosed
    /\ IF errChan # <<>>
       THEN /\ retTimings' = SomeTimings(timingsArr)
            /\ retErr' = Wrap("error while running streams",
                              Wrap("a stream worker failed", Head(errChan)))
            /\ results' = ResultsOf(timingsArr)
            /\ errChan' = Tail(errChan)
       ELSE /\ retTimings' = SomeTimings(timingsArr)
            /\ retErr' = NoErr
            /\ results' = ResultsOf(timingsArr)
            /\ errChan' = errChan
    /\ cancelCalled' = TRUE
    /\ mainPc' = "done"
    /\ UNCHANGED <<statsVars, httpVars, streamVars, sseVars, N, C, extCancelled, timingsChan, timingsClosed, errClosed, sem, wg,
                   spawnI, closerPc, wpc, wres, timingsArr, reports>>

\* if err := <-errChan; err != nil { return nil, ... }; return timingsArr, nil
\* then the deferred cancel(), then BenchmarkStream's own return.
MainReturn ==
    /\ mainPc = "errcheck"
    /\ errChan # <<>> \/ errClosed
    /\ IF errChan # <<>>
       THEN /\ retTimings' = NilTimings
            /\ retErr' = Wrap("error while running streams",
                              Wrap("a stream worker failed", Head(errChan)))
            /\ results' = ZeroResults
            /\ errChan' = Tail(errChan)
       ELSE /\ retTimings' = SomeTimings(timingsArr)
            /\ retErr' = NoErr
            /\ results' = ResultsOf(timingsArr)
            /\ errChan' = errChan
    /\ cancelCalled' = TRUE
    /\ mainPc' = "done"
    /\ UNCHANGED <<statsVars, httpVars, streamVars, sseVars, N, C, extCancelled, timingsChan, timingsClosed, errClosed, sem, wg,
                   spawnI, closerPc, wpc, wres, timingsArr, reports>>

\* One step of the program (everything but the caller's cancellation).
BenchStep ==
    \/ MainEnter
    \/ SpawnerSkip
    \/ SpawnerLaunch
    \/ \E i \in Runs : WorkerFactory(i)
    \/ \E i \in Runs : WorkerDrain(i)
    \/ \E i \in Runs : WorkerReportErr(i)
    \/ \E i \in Runs : WorkerCancel(i)
    \/ \E i \in Runs : WorkerPublish(i)
    \/ \E i \in Runs : WorkerWgDone(i)
    \/ \E i \in Runs : WorkerRelease(i)
    \/ CloserWait
    \/ CloserCloseErr
    \/ MainCollect
    \/ MainReturn

NextBench == BenchStep \/ ExtCancel

SpecBench == InitBench /\ [][NextBench]_vars

\* Go schedules every runnable goroutine and no step of the program disables
\* another goroutine's step, so the program does not stop while one of its
\* steps is enabled; a started run is assumed to end.  The caller is not
\* obliged to cancel.
FairBench == SpecBench /\ WF_vars(BenchStep)

\* ===================================== pkg/httpx: ReadServerSentEvents
\* A line is the sequence of tokens ReadString returns: "sp" is a blank, "nl"
\* the delimiter, "data:" the field prefix, anything else payload text.
Space == {"sp", "nl"}

\* strings.TrimSpace
RECURSIVE TrimLeft(_)
TrimLeft(v) == IF v # <<>> /\ Head(v) \in Space THEN TrimLeft(Tail(v)) ELSE v
RECURSIVE TrimRight(_)
TrimRight(v) ==
    IF v # <<>> /\ v[Len(v)] \in Space THEN TrimRight(SubSeq(v, 1, Len(v) - 1)) ELSE v
TrimSpace(v) == TrimRight(TrimLeft(v))

\* strings.TrimPrefix(value, "data:")
TrimPrefix(v) == IF v # <<>> /\ Head(v) = "data:" THEN Tail(v) ELSE v

\* sanitizeSSE without the final TrimSpace (the mutant of sanitizeSSE)
sanitizeSSENoSecondTrim(value) == TrimPrefix(TrimSpace(value))

\* sanitizeSSE
sanitizeSSE(value) == TrimSpace(TrimPrefix(TrimSpace(value)))

Blank == <<>>
DoneMarker == <<"[DONE]">>

\* The line contents a body is made of, each with the payload a reader of the
\* protocol is to see in it (the oracle the claims compare against).
LineA     == <<"data:", "sp", "a">>
LineB     == <<"sp", "data:", "b", "sp">>
LineBlank == <<>>
LineDone  == <<"data:", "sp", "[DONE]">>
LineChoices == {LineA, LineB, LineBlank, LineDone}
PayloadOf(content) ==
    CASE content = LineA -> <<"a">>
      [] content = LineB -> <<"b">>
      [] content = LineBlank -> Blank
      [] content = LineDone -> DoneMarker

\* A body line: its content and whether the delimiter follows it.
Line(content, terminated) == [content |-> content, terminated |-> terminated]

\* What ReadString('\n') hands back for a line.
RawOf(line) == IF line.terminated THEN line.content \o <<"nl">> ELSE line.content

\* Bodies: up to MaxLines lines; only the last may lack its delimiter.
BodiesOfLen(n) ==
    {[i \in 1..n |-> Line(f[i], (i < n) \/ t)] : f \in [1..n -> LineChoices], t \in BOOLEAN}
Bodies == UNION {BodiesOfLen(n) : n \in 0..MaxLines}

\* An event on the channel (the Timestamp field is left out).
NoError == "nil"
\* A value event that does not carry the loop counter (the mutant of
\* ValueEvent)
ValueEventNoIndex(i, v) == [Index |-> 0, Value |-> v, Error |-> "nil"]

ValueEvent(i, v) == [Index |-> i, Value |-> v, Error |-> NoError]
ErrorEvent(i, e) == [Index |-> i, Value |-> <<>>, Error |-> e]

\* Nothing has been read yet.
NoRead == [data |-> <<>>, err |-> NoError, cancelled |-> FALSE]

\* ctx.Err() that is never consulted (the mutant of CtxErr)
CtxErrNone == NoError

\* ctx.Err() of the caller's context
CtxErr == IF sseCancelled THEN "canceled" ELSE NoError

\* producerCtx.Done(): the parent is cancelled or cancel() has run
ProducerCtxDone == sseCancelled \/ prodCancelled

BenchIdle ==
    /\ N = 0 /\ C = 0 /\ mainPc = "done"
    /\ extCancelled = FALSE /\ cancelCalled = FALSE
    /\ timingsChan = <<>> /\ timingsClosed = FALSE
    /\ errChan = <<>> /\ errClosed = FALSE
    /\ sem = 0 /\ wg = 0 /\ spawnI = 0 /\ closerPc = "done"
    /\ wpc = [i \in Runs |-> "idle"]
    /\ wres = [i \in Runs |-> None]
    /\ timingsArr = <<>> /\ reports = <<>>
    /\ retTimings = NilTimings /\ retErr = NoErr /\ results = ZeroResults

\* ReadServerSentEvents has returned the stream: both goroutines are started.
InitSSE ==
    /\ StatsIdle
    /\ BenchIdle
    /\ StreamIdle
    /\ HttpIdle
    /\ body \in Bodies
    /\ tail \in {"eof", "err", "block"}
    /\ sseCancelled \in BOOLEAN
    /\ prodCancelled = FALSE
    /\ closeCount = 0
    /\ watcherPc = "wait"
    /\ prodPc = "read"
    /\ index = 0
    /\ pending = ValueEvent(0, <<>>)
    /\ eventChan = <<>> /\ chanClosed = FALSE
    /\ emitted = <<>>
    /\ recvCount = 0
    /\ consPc = "pull"
    /\ lastRead = NoRead

\* The caller cancels ctx.
SSECancel ==
    /\ ~sseCancelled
    /\ sseCancelled' = TRUE
    /\ UNCHANGED <<statsVars, httpVars, streamVars, benchVars, lastRead, body, tail, prodCancelled, closeCount, watcherPc, prodPc,
                   index, pending, eventChan, chanClosed, emitted, recvCount, consPc>>

\* The watcher waits for the caller's ctx only (the mutant of WatcherWake).
WatcherWakeParentOnly == sseCancelled

\* <-producerCtx.Done() returns
WatcherWake == ProducerCtxDone

\* The watcher goroutine: <-producerCtx.Done(); _ = body.Close()
Watcher ==
    /\ watcherPc = "wait"
    /\ WatcherWake
    /\ closeCount' = closeCount + 1
    /\ watcherPc' = "done"
    /\ UNCHANGED <<statsVars, httpVars, streamVars, benchVars, lastRead, body, tail, sseCancelled, prodCancelled, prodPc, index,
                   pending, eventChan, chanClosed, emitted, recvCount, consPc>>

\* The outcomes of reader.ReadString('\n') at the producer's position: a line
\* with a nil error, or (data, error).  A closed body fails the read, unless
\* the data was already buffered; a body that blocks returns only when closed.
ReadOutcomes ==
    LET more == index < Len(body)
        line == body[index + 1]
        closed == closeCount > 0
    IN  (IF more /\ line.terminated THEN {[data |-> RawOf(line), err |-> NoError]} ELSE {})
        \cup (IF more /\ ~line.terminated /\ tail = "eof"
                 THEN {[data |-> RawOf(line), err |-> "EOF"]} ELSE {})
        \cup (IF more /\ ~line.terminated /\ tail = "err"
                 THEN {[data |-> RawOf(line), err |-> "io"]} ELSE {})
        \cup (IF ~more /\ tail = "eof" THEN {[data |-> <<>>, err |-> "EOF"]} ELSE {})
        \cup (IF ~more /\ tail = "err" THEN {[data |-> <<>>, err |-> "io"]} ELSE {})
        \cup (IF closed THEN {[data |-> <<>>, err |-> "closed"]} ELSE {})

\* The switch without its "[DONE]" case (the mutant of Classify)
ClassifyNoSentinel(value) == IF value = Blank THEN "skip" ELSE "emit"

\* The switch on the sanitized line: skip it, stop reading, or emit it.
Classify(value) ==
    IF value = Blank THEN "skip"
    ELSE IF value = DoneMarker THEN "stop"
    ELSE "emit"

\* One iteration of the producer's loop up to its channel send: the read, the
\* error branch, sanitizeSSE and the switch.
ProducerRead ==
    /\ prodPc = "read"
    /\ \E r \in ReadOutcomes :
          /\ lastRead' = [data |-> r.data, err |-> r.err, cancelled |-> sseCancelled]
          /\ IF r.err # NoError
             THEN LET err == IF CtxErr # NoError THEN CtxErr ELSE r.err
                  IN  IF err # "EOF"
                      THEN /\ pending' = ErrorEvent(index, err)
                           /\ prodPc' = "send"
                           /\ index' = index
                      ELSE /\ prodPc' = "cancel"
                           /\ UNCHANGED <<pending, index>>
             ELSE LET value == sanitizeSSE(r.data)
                  IN  CASE Classify(value) = "skip" ->
                             /\ index' = index + 1
                             /\ UNCHANGED <<pending, prodPc>>
                        [] Classify(value) = "stop" ->
                             /\ prodPc' = "cancel"
                             /\ UNCHANGED <<pending, index>>
                        [] Classify(value) = "emit" ->
                             /\ pending' = ValueEvent(index, value)
                             /\ prodPc' = "send"
                             /\ index' = index
    /\ UNCHANGED <<statsVars, httpVars, streamVars, benchVars, body, tail, sseCancelled, prodCancelled, closeCount,
                   watcherPc, eventChan, chanClosed, emitted, recvCount, consPc>>

\* The send after which the loop goes on whatever was sent (the mutant of
\* ProducerSend).
ProducerSendKeepsReading ==
    /\ prodPc = "send"
    /\ Len(eventChan) < EventChanCap
    /\ eventChan' = Append(eventChan, pending)
    /\ emitted' = Append(emitted, pending)
    /\ prodPc' = "read" /\ index' = index + 1
    /\ UNCHANGED <<statsVars, httpVars, streamVars, benchVars, lastRead, body, tail, sseCancelled, prodCancelled, closeCount,
                   watcherPc, pending, chanClosed, recvCount, consPc>>

\* eventChan <- event: blocks while the buffer is full.  After an error event
\* the producer returns; after a value event the loop goes on (index++).
ProducerSend ==
    /\ prodPc = "send"
    /\ Len(eventChan) < EventChanCap
    /\ eventChan' = Append(eventChan, pending)
    /\ emitted' = Append(emitted, pending)
    /\ IF pending.Error # NoError
       THEN prodPc' = "cancel" /\ index' = index
       ELSE prodPc' = "read" /\ index' = index + 1
    /\ UNCHANGED <<statsVars, httpVars, streamVars, benchVars, lastRead, body, tail, sseCancelled, prodCancelled, closeCount,
                   watcherPc, pending, chanClosed, recvCount, consPc>>

\* defer cancel()
ProducerCancel ==
    /\ prodPc = "cancel"
    /\ prodCancelled' = TRUE
    /\ prodPc' = "closeChan"
    /\ UNCHANGED <<statsVars, httpVars, streamVars, benchVars, lastRead, body, tail, sseCancelled, closeCount, watcherPc, index,
                   pending, eventChan, chanClosed, emitted, recvCount, consPc>>

\* defer close(eventChan)
ProducerCloseChan ==
    /\ prodPc = "closeChan"
    /\ chanClosed' = TRUE
    /\ prodPc' = "done"
    /\ UNCHANGED <<statsVars, httpVars, streamVars, benchVars, lastRead, body, tail, sseCancelled, prodCancelled, closeCount,
                   watcherPc, index, pending, eventChan, emitted, recvCount, consPc>>

\* The consumer's NextContext(ctx) on streams.New(eventChan): a select between
\* ctx.Done() and the channel.
ConsumerPull ==
    /\ consPc = "pull"
    /\ \/ /\ eventChan # <<>>
          /\ eventChan' = Tail(eventChan)
          /\ recvCount' = recvCount + 1
          /\ consPc' = consPc
       \/ /\ eventChan = <<>> /\ chanClosed
          /\ consPc' = "exhausted"
          /\ UNCHANGED <<eventChan, recvCount>>
       \/ /\ sseCancelled
          /\ consPc' = "cancelled"
          /\ UNCHANGED <<eventChan, recvCount>>
    /\ UNCHANGED <<statsVars, httpVars, streamVars, benchVars, lastRead, body, tail, sseCancelled, prodCancelled, closeCount,
                   watcherPc, prodPc, index, pending, chanClosed, emitted>>

Producer == ProducerRead \/ ProducerSend \/ ProducerCancel \/ ProducerCloseChan

NextSSE ==
    \/ SSECancel
    \/ Watcher
    \/ ProducerRead
    \/ ProducerSend
    \/ ProducerCancel
    \/ ProducerCloseChan
    \/ ConsumerPull

SpecSSE == InitSSE /\ [][NextSSE]_vars

\* Both goroutines are scheduled; the consumer may stop pulling and the
\* caller need not cancel.
FairSSE == SpecSSE /\ WF_vars(Watcher) /\ WF_vars(Producer)


\* ================================================== pkg/streams: Stream
\* A value: its Go type, for a string the format that produced it, and the
\* number it holds (a float64 counts in halves, so that i * 1.5 is exact).
IntVal(x)  == [t |-> "int", f |-> "", n |-> x]
ZeroOf(ty) == [t |-> ty, f |-> "", n |-> 0]

\* The items a source channel may carry.
ItemValues == {IntVal(1), IntVal(2)}

\* The conversion functions handed to Map:
\*   "item"  func(i int) string    { return fmt.Sprintf("item-%d", i) }
\*   "scale" func(i int) float64   { return float64(i) * 1.5 }
\*   "fmt2"  func(f float64) string { return fmt.Sprintf("%.2f", f) }
conv(c, v) ==
    CASE c = "item"  -> [t |-> "string", f |-> "item-%d", n |-> v.n]
      [] c = "scale" -> [t |-> "float64", f |-> "", n |-> 3 * v.n]
      [] c = "fmt2"  -> [t |-> "string", f |-> "%.2f", n |-> v.n]

\* The result type U of a conversion.
OutType(c) == IF c = "scale" THEN "float64" ELSE "string"

\* The pipelines built: the bare stream, one Map, and two chained Maps.
Chains == {<<>>, <<"item">>, <<"scale">>, <<"scale", "fmt2">>}

\* What next returns: (value, ok, error); convs counts the calls of a
\* conversion function made on the way.
Result(v, ok, err, k) == [val |-> v, ok |-> ok, err |-> err, convs |-> k]

\* The closure of streams.New: a select between ctx.Done() and a receive from
\* the source channel.  The set is empty while the call blocks.
SourceNextOutcomes ==
    (IF stCancelled THEN {Result(ZeroOf("int"), FALSE, "canceled", 0)} ELSE {})
    \cup (IF srcChan # <<>> THEN {Result(Head(srcChan), TRUE, "nil", 0)} ELSE {})
    \cup (IF srcChan = <<>> /\ srcClosed
             THEN {Result(ZeroOf("int"), FALSE, "nil", 0)} ELSE {})

\* A Map closure that leaves the item as it came (the mutant of MapNext)
MapNextSkipsConv(c, u) == u

\* A Map closure that converts whatever the source returned (the mutant of
\* MapNext)
MapNextEager(c, u) == Result(conv(c, u.val), u.ok, u.err, u.convs + 1)

\* The closure of streams.Map, given what sourceStream.next(ctx) returned.
MapNext(c, u) ==
    IF u.err # "nil" THEN Result(ZeroOf(OutType(c)), FALSE, u.err, u.convs)
    ELSE IF ~u.ok THEN Result(ZeroOf(OutType(c)), FALSE, "nil", u.convs)
    ELSE Result(conv(c, u.val), TRUE, "nil", u.convs + 1)

\* next of the k-th stage of the chain, the source stream having returned u.
RECURSIVE StreamNext(_, _, _)
StreamNext(ch, k, u) ==
    IF k = 0 THEN u ELSE MapNext(ch[k], StreamNext(ch, k - 1, u))

\* The channel after the receive that returned u.
AfterReceive(u) == IF u.ok THEN Tail(srcChan) ELSE srcChan

InitStream ==
    /\ StatsIdle
    /\ BenchIdle
    /\ SSEIdle
    /\ HttpIdle
    /\ chain \in Chains
    /\ srcChan = <<>> /\ srcClosed = FALSE /\ fed = <<>>
    /\ stCancelled \in BOOLEAN
    /\ stPc = "new"
    /\ outcomes = <<>> /\ srcOutcomes = <<>>
    /\ exPc = "idle" /\ exStart = 0 /\ exItems = <<>>
    /\ exRet = [isNil |-> TRUE, items |-> <<>>, err |-> "nil"]

\* A sender puts an item on the source channel.
Feed ==
    /\ ~srcClosed
    /\ Len(fed) < MaxItems
    /\ \E x \in ItemValues :
          /\ srcChan' = Append(srcChan, x)
          /\ fed' = Append(fed, x)
    /\ UNCHANGED <<statsVars, httpVars, benchVars, sseVars, chain, srcClosed, stCancelled, stPc, outcomes,
                   srcOutcomes, exPc, exStart, exItems, exRet>>

\* The sender closes the source channel.
CloseSrc ==
    /\ ~srcClosed
    /\ srcClosed' = TRUE
    /\ UNCHANGED <<statsVars, httpVars, benchVars, sseVars, chain, srcChan, fed, stCancelled, stPc, outcomes,
                   srcOutcomes, exPc, exStart, exItems, exRet>>

\* The consumer's ctx is cancelled.
StreamCancel ==
    /\ ~stCancelled
    /\ stCancelled' = TRUE
    /\ UNCHANGED <<statsVars, httpVars, benchVars, sseVars, chain, srcChan, srcClosed, fed, stPc, outcomes,
                   srcOutcomes, exPc, exStart, exItems, exRet>>

\* streams.New(ch) and the Map calls around it: closures are allocated,
\* nothing is received.
Build ==
    /\ stPc = "new"
    /\ stPc' = "ready"
    /\ UNCHANGED <<statsVars, httpVars, benchVars, sseVars, chain, srcChan, srcClosed, fed, stCancelled,
                   outcomes, srcOutcomes, exPc, exStart, exItems, exRet>>

\* stream.NextContext(ctx) on the outermost stream.
NextContext ==
    /\ stPc = "ready" /\ exPc = "idle"
    /\ Len(outcomes) < MaxCalls
    /\ \E u \in SourceNextOutcomes :
          /\ srcOutcomes' = Append(srcOutcomes, u)
          /\ outcomes' = Append(outcomes, StreamNext(chain, Len(chain), u))
          /\ srcChan' = AfterReceive(u)
    /\ UNCHANGED <<statsVars, httpVars, benchVars, sseVars, chain, srcClosed, fed, stCancelled, stPc,
                   exPc, exStart, exItems, exRet>>

\* stream.Exhaust(ctx) is called: items := make([]T, 0, 100)
ExhaustBegin ==
    /\ stPc = "ready" /\ exPc = "idle"
    /\ exPc' = "loop"
    /\ exStart' = Len(outcomes)
    /\ exItems' = <<>>
    /\ UNCHANGED <<statsVars, httpVars, benchVars, sseVars, chain, srcChan, srcClosed, fed, stCancelled, stPc,
                   outcomes, srcOutcomes, exRet>>

\* An Exhaust loop that returns what it has on cancellation (the mutant of
\* ExhaustStep)
ExhaustStepPartial ==
    /\ exPc = "loop"
    /\ \E u \in SourceNextOutcomes :
          LET r == StreamNext(chain, Len(chain), u)
          IN  /\ srcOutcomes' = Append(srcOutcomes, u)
              /\ outcomes' = Append(outcomes, r)
              /\ srcChan' = AfterReceive(u)
              /\ IF r.ok
                 THEN /\ exItems' = Append(exItems, r.val)
                      /\ UNCHANGED <<exPc, exRet>>
                 ELSE /\ exRet' = [isNil |-> FALSE, items |-> exItems, err |-> r.err]
                      /\ exPc' = "done"
                      /\ UNCHANGED exItems
    /\ UNCHANGED <<statsVars, httpVars, benchVars, sseVars, chain, srcClosed, fed, stCancelled, stPc, exStart>>

\* One iteration of Exhaust's loop.
ExhaustStep ==
    /\ exPc = "loop"
    /\ \E u \in SourceNextOutcomes :
          LET r == StreamNext(chain, Len(chain), u)
          IN  /\ srcOutcomes' = Append(srcOutcomes, u)
              /\ outcomes' = Append(outcomes, r)
              /\ srcChan' = AfterReceive(u)
              /\ IF r.err # "nil"
                 THEN /\ exRet' = [isNil |-> TRUE, items |-> <<>>, err |-> r.err]
                      /\ exPc' = "done"
                      /\ UNCHANGED exItems
                 ELSE IF ~r.ok
                 THEN /\ exRet' = [isNil |-> FALSE, items |-> exItems, err |-> "nil"]
                      /\ exPc' = "done"
                      /\ UNCHANGED exItems
                 ELSE /\ exItems' = Append(exItems, r.val)
                      /\ UNCHANGED <<exPc, exRet>>
    /\ UNCHANGED <<statsVars, httpVars, benchVars, sseVars, chain, srcClosed, fed, stCancelled, stPc, exStart>>

NextStream ==
    \/ Feed
    \/ CloseSrc
    \/ StreamCancel
    \/ Build
    \/ NextContext
    \/ ExhaustBegin
    \/ ExhaustStep

SpecStream == InitStream /\ [][NextStream]_vars


\* ============================================ pkg/httpx: RetryClient.DoRetry
\* Errors: a transport error of the k-th rc.Do, the errors DoRetry makes, and
\* the request context's error.
TransportErr(k) == [kind |-> "transport", n |-> k, last |-> 0, body |-> ""]
NoGetBodyErr    == [kind |-> "GetBody function must be set", n |-> 0, last |-> 0, body |-> ""]
GetBodyCallErr  == [kind |-> "error in the GetBody call", n |-> 0, last |-> 0, body |-> ""]
RequestCtxErr   == [kind |-> "context", n |-> 0, last |-> 0, body |-> ""]

\* fmt.Errorf("all %d attempts failed, last error: %w", maxAttempts, errFinal)
AllFailedErr(max, e) == [kind |-> "all attempts failed", n |-> max, last |-> e.n, body |-> ""]

\* The status codes a server answers with.
Statuses == {200, 400}

\* A response received by the k-th rc.Do: its status and what its body holds.
Response(s, k) ==
    [status |-> s, attempt |-> k,
     body |-> IF s = 200 THEN "event stream" ELSE "{error: bad request}"]

\* What the k-th req.GetBody() and rc.Do(reqClone) return together: a GetBody
\* error (no exchange), a response with a nil error, or a transport error.
AttemptOutcomes(k) ==
    {[gb |-> FALSE, resp |-> NilResponse, err |-> GetBodyCallErr]}
    \cup {[gb |-> TRUE, resp |-> Response(st, k), err |-> NilError] : st \in Statuses}
    \cup {[gb |-> TRUE, resp |-> NilResponse, err |-> TransportErr(k)]}

\* DoRetry is called: rtMax and the request are its arguments.
InitRetry ==
    /\ StatsIdle
    /\ BenchIdle /\ SSEIdle /\ StreamIdle /\ ApiIdle
    /\ rtMax \in 0..MaxAttempts
    /\ rtHasGetBody \in BOOLEAN
    /\ rtCancelled \in BOOLEAN
    /\ rtPc = "entry" /\ rtI = 0 /\ exchanges = <<>> /\ rtWaits = 0 /\ gbCalls = 0
    /\ timerFired = FALSE /\ errFinal = NilError
    /\ rtRet = [resp |-> NilResponse, err |-> NilError]
    /\ cancelAt = [where |-> "none", done |-> 0]

\* A check that lets every request through (the mutant of Rewindable)
RewindableAlways == TRUE

\* req.GetBody != nil
Rewindable == rtHasGetBody

\* The GetBody check, and the first test of the loop condition.
RetryEnter ==
    /\ rtPc = "entry"
    /\ IF ~Rewindable
       THEN /\ rtRet' = [resp |-> NilResponse, err |-> NoGetBodyErr]
            /\ rtPc' = "done"
       ELSE IF rtI < rtMax
       THEN /\ rtPc' = "attempt"
            /\ UNCHANGED rtRet
       ELSE /\ rtRet' = [resp |-> NilResponse, err |-> AllFailedErr(rtMax, errFinal)]
            /\ rtPc' = "done"
    /\ UNCHANGED <<statsVars, benchVars, sseVars, streamVars, apiVars, rtMax, rtHasGetBody,
                   gbCalls, rtCancelled, rtI, exchanges, rtWaits, timerFired, errFinal, cancelAt>>

\* A success test that also wants status 200 (the mutant of Succeeded)
SucceededOnly200(o) == o.err = NilError /\ o.resp.status = 200

\* if err == nil
Succeeded(o) == o.err = NilError

\* A loop that never sees its last iteration (the mutant of LastIteration)
LastIterationNever == FALSE

\* if i == maxAttempts-1
LastIteration == rtI = rtMax - 1

\* An attempt that sends the body handed out by the first GetBody call (the
\* mutant of BodyOfCall)
BodyOfFirstCall(k) == 1

\* bodyReader, err := req.GetBody(); reqClone.Body = bodyReader: the body the
\* k-th call hands out, named by the call.
BodyOfCall(k) == k

\* One pass of the loop body up to the select: a fresh body, rc.Do, the
\* return on success, errFinal, the break on the last iteration, the timer.
RetryAttempt ==
    /\ rtPc = "attempt"
    /\ gbCalls' = gbCalls + 1
    /\ \E o \in AttemptOutcomes(Len(exchanges) + 1) :
          IF ~o.gb
          THEN /\ rtRet' = [resp |-> NilResponse, err |-> o.err]
               /\ rtPc' = "done"
               /\ UNCHANGED <<exchanges, errFinal, rtWaits, timerFired>>
          ELSE /\ exchanges' = Append(exchanges, [resp |-> o.resp, err |-> o.err,
                                                  body |-> BodyOfCall(gbCalls + 1)])
               /\ IF Succeeded(o)
                  THEN /\ rtRet' = [resp |-> o.resp, err |-> NilError]
                       /\ rtPc' = "done"
                       /\ UNCHANGED <<errFinal, rtWaits, timerFired>>
                  ELSE /\ errFinal' = o.err
                       /\ IF LastIteration
                          THEN /\ rtRet' = [resp |-> NilResponse,
                                            err |-> AllFailedErr(rtMax, o.err)]
                               /\ rtPc' = "done"
                               /\ UNCHANGED <<rtWaits, timerFired>>
                          ELSE /\ rtWaits' = rtWaits + 1
                               /\ timerFired' = FALSE
                               /\ rtPc' = "timer"
                               /\ UNCHANGED rtRet
    /\ UNCHANGED <<statsVars, benchVars, sseVars, streamVars, apiVars, rtMax, rtHasGetBody,
                   rtCancelled, rtI, cancelAt>>

\* The loop's i++ and condition after the timer case of the select.
AfterWait ==
    IF rtI + 1 < rtMax
    THEN /\ rtPc' = "attempt"
         /\ UNCHANGED rtRet
    ELSE /\ rtRet' = [resp |-> NilResponse, err |-> AllFailedErr(rtMax, errFinal)]
         /\ rtPc' = "done"

\* The timer expires.  A goroutine parked in the select is woken with the
\* timer case.
TimerFire ==
    /\ rtPc \in {"timer", "parked"}
    /\ ~timerFired
    /\ timerFired' = TRUE
    /\ IF rtPc = "parked"
       THEN /\ rtI' = rtI + 1
            /\ AfterWait
       ELSE UNCHANGED <<rtI, rtPc, rtRet>>
    /\ UNCHANGED <<statsVars, benchVars, sseVars, streamVars, apiVars, rtMax, rtHasGetBody,
                   gbCalls, rtCancelled, exchanges, rtWaits, errFinal, cancelAt>>

\* The request's ctx is cancelled.  A goroutine parked in the select is woken
\* with the Done case.
RetryCancel ==
    /\ rtPc # "idle"
    /\ ~rtCancelled
    /\ rtCancelled' = TRUE
    /\ cancelAt' = [where |-> IF rtPc \in {"timer", "parked"} /\ timerFired
                                 THEN "expired" ELSE rtPc,
                    done |-> Len(exchanges)]
    /\ IF rtPc = "parked"
       THEN /\ rtRet' = [resp |-> NilResponse, err |-> RequestCtxErr]
            /\ rtPc' = "done"
       ELSE UNCHANGED <<rtRet, rtPc>>
    /\ UNCHANGED <<statsVars, benchVars, sseVars, streamVars, apiVars, rtMax, rtHasGetBody,
                   gbCalls, rtI, exchanges, rtWaits, timerFired, errFinal>>

\* The select is reached: one of the ready cases is taken; with none ready
\* the goroutine parks.
WaitSelect ==
    /\ rtPc = "timer"
    /\ \/ /\ rtCancelled
          /\ rtRet' = [resp |-> NilResponse, err |-> RequestCtxErr]
          /\ rtPc' = "done"
          /\ UNCHANGED rtI
       \/ /\ timerFired
          /\ rtI' = rtI + 1
          /\ AfterWait
       \/ /\ ~rtCancelled /\ ~timerFired
          /\ rtPc' = "parked"
          /\ UNCHANGED <<rtI, rtRet>>
    /\ UNCHANGED <<statsVars, benchVars, sseVars, streamVars, apiVars, rtMax, rtHasGetBody,
                   gbCalls, rtCancelled, exchanges, rtWaits, timerFired, errFinal, cancelAt>>

NextRetry ==
    \/ RetryEnter
    \/ RetryAttempt
    \/ TimerFire
    \/ WaitSelect
    \/ RetryCancel

SpecRetry == InitRetry /\ [][NextRetry]_vars


\* ======================================== pkg/api: Client.ChatCompletionStream
\* DoRetry(httpRequest, 20, time.Millisecond*50)
ApiMaxAttempts == 20

\* The payload of a server-sent event as tokens: a complete JSON object with
\* the delta's content, or one cut short.
GoodJSON(c) == <<"{", "content", c, "}">>
BadJSON == <<"{", "content">>

\* A ServerSentEvent on the reader's channel.
RawEvent(i, v, e) == [Index |-> i, Value |-> v, Error |-> e, Timestamp |-> 100 + i]

\* The event a reader sends at position i.
RawChoices(i) ==
    {RawEvent(i, GoodJSON("Hello"), "nil"), RawEvent(i, BadJSON, "nil"),
     RawEvent(i, <<>>, "io")}

\* What a reader sends before it closes its channel: up to MaxRaw events; an
\* event with an error is the last one.
RawStreams ==
    UNION {{r \in [1..n -> UNION {RawChoices(i) : i \in 0..(n - 1)}] :
              \A j \in 1..n : /\ r[j] \in RawChoices(j - 1)
                              /\ (r[j].Error # "nil" => j = n)}
           : n \in 0..MaxRaw}

\* json.Unmarshal([]byte(sse.Value), &event)
Unmarshal(v) ==
    IF Len(v) = 4 /\ v[1] = "{" /\ v[2] = "content" /\ v[4] = "}"
    THEN [ok |-> TRUE, content |-> v[3]]
    ELSE [ok |-> FALSE, content |-> ""]

\* convertSSE
convertSSE(sse) ==
    LET event == [index |-> sse.Index, timestamp |-> sse.Timestamp,
                  content |-> "", err |-> "nil"]
    IN  IF sse.Error # "nil"
        THEN [event EXCEPT !.err = "failed to read server-sent event"]
        ELSE LET u == Unmarshal(sse.Value)
             IN  IF ~u.ok
                 THEN [event EXCEPT !.err = "failed to unmarshal server-sent event"]
                 ELSE [event EXCEPT !.content = u.content]

\* ChatCompletionStream is called.
InitApi ==
    /\ StatsIdle
    /\ BenchIdle /\ SSEIdle /\ StreamIdle
    /\ RetryIdle
    /\ apiPc = "start"
    /\ apiRet = [stream |-> FALSE, err |-> NilError]
    /\ readerStarted = FALSE
    /\ apiRaw = <<>> /\ rawNext = 0
    /\ sseChan = <<>> /\ sseChanClosed = FALSE
    /\ convPc = "idle" /\ convPending = NoEvent
    /\ apiChan = <<>> /\ apiChanClosed = FALSE
    /\ delivered = <<>> /\ apiRecv = 0
    /\ bodyCloses = 0 /\ readerClosed = FALSE

\* The endpoint URL and the request are built, and DoRetry is called with
\* GetBody set; a malformed base URL ends the call with an error.
ApiStart ==
    /\ apiPc = "start"
    /\ \E urlOk \in BOOLEAN :
          IF urlOk
          THEN /\ apiPc' = "retry"
               /\ rtPc' = "entry"
               /\ rtMax' = ApiMaxAttempts
               /\ \E b \in BOOLEAN : rtCancelled' = b
               /\ UNCHANGED apiRet
          ELSE /\ apiPc' = "done"
               /\ apiRet' = [stream |-> FALSE,
                             err |-> [NilError EXCEPT !.kind = "failed to form API endpoint URL"]]
               /\ UNCHANGED <<rtPc, rtMax, rtCancelled>>
    /\ UNCHANGED <<statsVars, benchVars, sseVars, streamVars, rtHasGetBody, gbCalls, rtI, exchanges, rtWaits,
                   timerFired, errFinal, rtRet, cancelAt, readerStarted, bodyCloses, readerClosed, apiRaw, rawNext,
                   sseChan, sseChanClosed, convPc, convPending, apiChan, apiChanClosed,
                   delivered, apiRecv>>

\* A status test that lets every response through (the mutant of StatusOk)
StatusOkAlways(resp) == TRUE

\* response.StatusCode != http.StatusOK, negated
StatusOk(resp) == resp.status = 200

\* DoRetry has returned: its error is wrapped and returned; a status other
\* than 200 is returned as an error with the body read by io.ReadAll;
\* otherwise the reader and the converter goroutine are started and the
\* channel is returned.
ApiAfterRetry ==
    /\ apiPc = "retry" /\ rtPc = "done"
    /\ IF rtRet.err # NilError
       THEN /\ apiRet' = [stream |-> FALSE,
                          err |-> [rtRet.err EXCEPT !.body = "failed to execute HTTP request"]]
            /\ apiPc' = "done"
            /\ UNCHANGED <<readerStarted, apiRaw, convPc>>
       ELSE IF ~StatusOk(rtRet.resp)
       THEN /\ \E readOk \in BOOLEAN :
                  apiRet' = [stream |-> FALSE,
                             err |-> [kind |-> "unexpected status code",
                                      n |-> rtRet.resp.status, last |-> 0,
                                      body |-> IF readOk THEN rtRet.resp.body
                                               ELSE "failed to read response body"]]
            /\ apiPc' = "done"
            /\ UNCHANGED <<readerStarted, apiRaw, convPc>>
       ELSE /\ readerStarted' = TRUE
            /\ apiRaw' \in RawStreams
            /\ convPc' = "recv"
            /\ apiRet' = [stream |-> TRUE, err |-> NilError]
            /\ apiPc' = "stream"
    /\ UNCHANGED <<statsVars, benchVars, sseVars, streamVars, retryVars, rawNext, sseChan,
                   sseChanClosed, convPending, apiChan, apiChanClosed, delivered, apiRecv,
                   bodyCloses, readerClosed>>

\* The reader sends its next event, or closes its channel after the last.
ReaderEmit ==
    /\ readerStarted /\ ~sseChanClosed
    /\ IF rawNext < Len(apiRaw)
       THEN /\ Len(sseChan) < EventChanCap
            /\ sseChan' = Append(sseChan, apiRaw[rawNext + 1])
            /\ rawNext' = rawNext + 1
            /\ UNCHANGED sseChanClosed
       ELSE /\ sseChanClosed' = TRUE
            /\ UNCHANGED <<sseChan, rawNext>>
    /\ UNCHANGED <<statsVars, benchVars, sseVars, streamVars, retryVars, apiPc, apiRet, readerStarted,
                   bodyCloses, readerClosed, apiRaw, convPc, convPending, apiChan, apiChanClosed, delivered, apiRecv>>

\* The reader's watcher: once the caller's context is cancelled or the
\* producer has returned (its deferred cancel runs before it closes the
\* channel), closeBody closes the response body, once.
ReaderCloseBody ==
    /\ readerStarted /\ ~readerClosed
    /\ rtCancelled \/ sseChanClosed
    /\ readerClosed' = TRUE
    /\ bodyCloses' = bodyCloses + 1
    /\ UNCHANGED <<statsVars, benchVars, sseVars, streamVars, retryVars, apiPc, apiRet, readerStarted,
                   apiRaw, rawNext, sseChan, sseChanClosed, convPc, convPending, apiChan,
                   apiChanClosed, delivered, apiRecv>>

\* for sse := range sseChan: the converter receives an event and converts it;
\* when the channel is closed and empty it returns, and its deferred calls
\* close the response body and the returned channel.
ConvRecv ==
    /\ convPc = "recv"
    /\ \/ /\ sseChan # <<>>
          /\ convPending' = convertSSE(Head(sseChan))
          /\ sseChan' = Tail(sseChan)
          /\ convPc' = "send"
          /\ UNCHANGED <<apiChanClosed, bodyCloses>>
       \/ /\ sseChan = <<>> /\ sseChanClosed
          /\ convPc' = "done"
          /\ bodyCloses' = bodyCloses + 1
          /\ apiChanClosed' = TRUE
          /\ UNCHANGED <<convPending, sseChan>>
    /\ UNCHANGED <<statsVars, benchVars, sseVars, streamVars, retryVars, apiPc, apiRet, readerStarted,
                   readerClosed, apiRaw, rawNext, sseChanClosed, apiChan, delivered, apiRecv>>

\* A converter that gives up after an event with an error (the mutant of
\* ConvSend)
ConvSendFatal ==
    /\ convPc = "send"
    /\ Len(apiChan) < EventChanCap
    /\ apiChan' = Append(apiChan, convPending)
    /\ delivered' = Append(delivered, convPending)
    /\ IF convPending.err # "nil"
       THEN convPc' = "done" /\ apiChanClosed' = TRUE /\ bodyCloses' = bodyCloses + 1
       ELSE convPc' = "recv" /\ UNCHANGED <<apiChanClosed, bodyCloses>>
    /\ UNCHANGED <<statsVars, benchVars, sseVars, streamVars, retryVars, apiPc, apiRet, readerStarted,
                   readerClosed, apiRaw, rawNext, sseChan, sseChanClosed, convPending, apiRecv>>

\* eventChan <- convertSSE(sse): blocks while the buffer is full.
ConvSend ==
    /\ convPc = "send"
    /\ Len(apiChan) < EventChanCap
    /\ apiChan' = Append(apiChan, convPending)
    /\ delivered' = Append(delivered, convPending)
    /\ convPc' = "recv"
    /\ UNCHANGED <<statsVars, benchVars, sseVars, streamVars, retryVars, apiPc, apiRet, readerStarted,
                   bodyCloses, readerClosed, apiRaw, rawNext, sseChan, sseChanClosed, convPending, apiChanClosed,
                   apiRecv>>

\* The caller receives from the returned channel.
ApiReceive ==
    /\ apiRet.stream
    /\ apiChan # <<>>
    /\ apiChan' = Tail(apiChan)
    /\ apiRecv' = apiRecv + 1
    /\ UNCHANGED <<statsVars, benchVars, sseVars, streamVars, retryVars, apiPc, apiRet, readerStarted,
                   bodyCloses, readerClosed, apiRaw, rawNext, sseChan, sseChanClosed, convPc, convPending,
                   apiChanClosed, delivered>>

NextApi ==
    \/ ApiStart
    \/ RetryEnter
    \/ RetryAttempt
    \/ TimerFire
    \/ WaitSelect
    \/ RetryCancel
    \/ ApiAfterRetry
    \/ ReaderEmit
    \/ ReaderCloseBody
    \/ ConvRecv
    \/ ConvSend
    \/ ApiReceive

SpecApi == InitApi /\ [][NextApi]_vars


\* ============================ pkg/bench: the statistics as pure functions
\* The durations Metrics is called on: every list of up to MaxSamples
\* durations of 0..MaxDur, and the lists 1..n and n..1 for n up to MaxRamp.
Ramp(n) == [i \in 1..n |-> i]
RampDown(n) == [i \in 1..n |-> n + 1 - i]
DurationInputs ==
    UNION {[1..n -> 0..MaxDur] : n \in 0..MaxSamples}
      \cup {Ramp(n) : n \in 1..MaxRamp} \cup {RampDown(n) : n \in 1..MaxRamp}

\* The timings of one run that started at s: no event, one, two or three.
RunTimings(s) ==
    {[Start |-> s, End |-> s + 10, Events |-> ev] :
        ev \in {<<>>, <<s + 1>>, <<s + 1, s + 3>>, <<s + 2, s + 3, s + 7>>}}

\* The timingsArray the series are computed from: up to MaxN runs.
TimingsInputs ==
    UNION {[1..n -> RunTimings(0) \cup RunTimings(5)] : n \in 0..MaxN}

\* What Exhaust returns to runOneStream: up to MaxEvents events in arrival
\* order, each with an index of 0..2 (indices may repeat and may arrive out
\* of order) and the position of its arrival as its timestamp.
ArrivalInputs ==
    UNION {{[k \in 1..n |-> Ev(f[k], k)] : f \in [1..n -> 0..2]} : n \in 0..MaxEvents}

\* Metrics has not returned yet.
NoMetrics == [Avg |-> -1, Min |-> -1, Med |-> -1, Max |-> -1, P90 |-> -1, P95 |-> -1]

NoResults == [TTFT |-> NoMetrics, TBT |-> NoMetrics, TT |-> NoMetrics]

InitStats ==
    /\ BenchIdle /\ SSEIdle /\ StreamIdle /\ HttpIdle
    /\ \/ stsPc = "metrics" /\ stsIn \in DurationInputs /\ stsArr = <<>> /\ stsEvents = <<>>
       \/ stsPc = "series" /\ stsArr \in TimingsInputs /\ stsIn = <<>> /\ stsEvents = <<>>
       \/ stsPc = "timing" /\ stsEvents \in ArrivalInputs /\ stsIn = <<>> /\ stsArr = <<>>
       \/ stsPc = "results" /\ stsArr \in TimingsInputs /\ stsIn = <<>> /\ stsEvents = <<>>
    /\ stsMetrics = NoMetrics
    /\ stsSeries = NoSeries
    /\ stsTiming = NoTiming
    /\ stsResults = NoResults

\* A Metrics that sorts its receiver in place (the mutant of
\* ReceiverAfterMetrics)
ReceiverSortedInPlace(ds) == SortAsc(ds)

\* sorted := make(durations, len(ds)); copy(sorted, ds): the sort works on
\* the copy, the receiver keeps its elements in their order.
ReceiverAfterMetrics(ds) == ds

\* ds.Metrics()
ComputeMetrics ==
    /\ stsPc = "metrics"
    /\ stsMetrics' = Metrics(stsIn)
    /\ stsIn' = ReceiverAfterMetrics(stsIn)
    /\ stsPc' = "done"
    /\ UNCHANGED <<benchVars, sseVars, streamVars, httpVars, stsArr, stsSeries,
                   stsEvents, stsTiming, stsResults>>

\* a.TTFTs(), a.TBTs(), a.TTs()
ComputeSeries ==
    /\ stsPc = "series"
    /\ stsSeries' = [TTFT |-> TTFTs(stsArr), TBT |-> TBTs(stsArr), TT |-> TTs(stsArr)]
    /\ stsPc' = "done"
    /\ UNCHANGED <<benchVars, sseVars, streamVars, httpVars, stsIn, stsArr, stsMetrics,
                   stsEvents, stsTiming, stsResults>>

\* runOneStream after Exhaust has returned the events
ComputeTiming ==
    /\ stsPc = "timing"
    /\ stsTiming' = TimingOf(stsEvents)
    /\ stsPc' = "done"
    /\ UNCHANGED <<benchVars, sseVars, streamVars, httpVars, stsIn, stsArr, stsMetrics,
                   stsSeries, stsEvents, stsResults>>

\* BenchmarkStream after runStreams has returned timingsArr without an error
ComputeResults ==
    /\ stsPc = "results"
    /\ stsResults' = ResultsOf(stsArr)
    /\ stsPc' = "done"
    /\ UNCHANGED <<benchVars, sseVars, streamVars, httpVars, stsIn, stsArr, stsMetrics,
                   stsSeries, stsEvents, stsTiming>>

NextStats == ComputeMetrics \/ ComputeSeries \/ ComputeTiming \/ ComputeResults

SpecStats == InitStats /\ [][NextStats]_vars

\* ======================================================= claims: runStreams
\* The runs that hold a permit: launched and not yet past `<-semaphore`.
Running == {i \in Runs : wpc[i] \notin {"idle", "released"}}

\* The runs whose runOneStream returned an error.
FailedRuns == {i \in Runs : wres[i].tag = "err"}

\* The runs for which the factory has been invoked.
FactoryInvoked == {i \in Runs : wpc[i] \notin {"idle", "started"}}

\* The error BenchmarkStream returns for the worker error e.
Surfaced(e) == Wrap("error while running streams", Wrap("a stream worker failed", e))

\* C1: with N >= 0 and C >= 1, at most C runs hold a permit (are running) in
\* every reachable state.
C1_AtMostCRunning ==
    (N >= 0 /\ C >= 1) => Cardinality(Running) <= C

\* C1 witness: C runs are running while a further run waits for a permit.
C1_Witness ==
    /\ C >= 1 /\ N > C
    /\ Cardinality(Running) = C
    /\ spawnI < N
    /\ \E i \in Runs : wpc[i] = "draining"

\* C2 (as claimed): for N >= 0 and C >= 1, a return without an error carries
\* one timing for each of the N requested runs.
C2_SuccessHasAllTimings ==
    (N >= 0 /\ C >= 1 /\ mainPc = "done" /\ retErr = NoErr) =>
        (~retTimings.isNil /\ Len(retTimings.arr) = N)

\* C3: the error returned is the error of the first run that executed the
\* error select; the slot never holds another error, and a failing run is
\* never blocked in that select.
C3_FirstErrorWins ==
    /\ errChan # <<>> =>
          (reports # <<>> /\ errChan = <<wres[Head(reports)].err>>)
    /\ (mainPc = "done" /\ reports # <<>>) =>
          retErr = Surfaced(wres[Head(reports)].err)
    /\ \A i \in Runs : wpc[i] = "failed" => ENABLED WorkerReportErr(i)

\* C3 witness: two runs failed with different errors and the call returned.
C3_Witness ==
    /\ mainPc = "done"
    /\ Len(reports) >= 2
    /\ wres[reports[1]].err # wres[reports[2]].err

\* C4 (as claimed): once the derived context is cancelled, the spawner
\* launches no further worker.
C4_NoLaunchAfterCancel ==
    [][CtxDone => \A i \in Runs : (wpc[i] = "idle" => wpc'[i] = "idle")]_vars

\* C5 (as claimed): when runStreams returns, every run that was started has
\* released its permit.
C5_AllReleasedAtReturn ==
    mainPc = "done" => (Running = {} /\ sem = 0)

\* C6: if any run failed, BenchmarkStream returns an error with the zero
\* results and runStreams returns no timings, whatever was collected before.
C6_NoPartialResult ==
    (mainPc = "done" /\ FailedRuns # {}) =>
        /\ retErr # NoErr
        /\ results = ZeroResults
        /\ retTimings = NilTimings

\* C6 witness: a run failed after another run's timing had been collected.
C6_Witness ==
    /\ mainPc = "done"
    /\ FailedRuns # {}
    /\ timingsArr # <<>>

\* C7: with N = 0 and C >= 0 the call terminates, never invokes the factory,
\* and returns the zero results with a nil error.
C7_ZeroRequests ==
    /\ [](N = 0 => FactoryInvoked = {})
    /\ []((N = 0 /\ mainPc = "done") => (retErr = NoErr /\ results = ZeroResults))
    /\ ((N = 0 /\ C >= 0) ~> (mainPc = "done"))

\* C7 witness: a call with N = 0 has returned.
C7_Witness ==
    N = 0 /\ C >= 0 /\ mainPc = "done" /\ retErr = NoErr

\* C8 (as claimed): entered with C <= 0 and N > 0 the call fails at once with
\* an error: it does not panic, it starts no run, and it is never left with
\* no step to take before it has returned.
C8_ConfigErrorOnEntry ==
    (C <= 0 /\ N > 0) =>
        /\ mainPc # "panic"
        /\ FactoryInvoked = {}
        /\ mainPc = "done" => retErr # NoErr
        /\ (mainPc # "done" /\ ~extCancelled) => ENABLED BenchStep

\* ============================================ claims: ReadServerSentEvents
\* The producer has left its loop (it returned; its defers may still run).
ProducerReturned == prodPc \in {"cancel", "closeChan", "done"}

\* The body holds a [DONE] line that a read returns whole: the first such
\* line ends with its delimiter, or is the last line of a body that ends
\* cleanly.
HasDone(b) ==
    \E p \in 1..Len(b) :
        /\ PayloadOf(b[p].content) = DoneMarker
        /\ \A q \in 1..(p - 1) : PayloadOf(b[q].content) # DoneMarker
        /\ b[p].terminated \/ tail = "eof"

\* The positions (1-based, ascending) of the valid lines before the first
\* [DONE] line, from position p on.
RECURSIVE ValidPositions(_, _)
ValidPositions(b, p) ==
    IF p > Len(b) \/ PayloadOf(b[p].content) = DoneMarker THEN <<>>
    ELSE (IF PayloadOf(b[p].content) = Blank THEN <<>> ELSE <<p>>)
         \o ValidPositions(b, p + 1)

\* C9 (as claimed): on a body of k valid lines, blank lines among them, then
\* [DONE], without cancellation, the reader emits the k payloads in body order
\* with the indices 0..k-1.
C9_IndicesAreOrdinals ==
    (ProducerReturned /\ ~sseCancelled /\ HasDone(body)) =>
        LET vp == ValidPositions(body, 1)
        IN  emitted = [j \in 1..Len(vp) |-> ValueEvent(j - 1, PayloadOf(body[vp[j]].content))]

\* C9 (amended): the reader emits the k payloads in body order, and the index
\* of an event is the zero-based position of its line among all the lines
\* read, blank ones included.
C9_IndicesAreLinePositions ==
    (ProducerReturned /\ ~sseCancelled /\ HasDone(body)) =>
        LET vp == ValidPositions(body, 1)
        IN  emitted = [j \in 1..Len(vp) |->
                          ValueEvent(vp[j] - 1, PayloadOf(body[vp[j]].content))]

\* C9 witness: a blank line, a payload, then [DONE], read to the end.
C9_Witness ==
    /\ ProducerReturned /\ ~sseCancelled /\ HasDone(body)
    /\ Len(body) = 3
    /\ PayloadOf(body[1].content) = Blank
    /\ emitted = <<ValueEvent(1, PayloadOf(body[2].content))>>

C10_CloseEventually ==
    /\ [](chanClosed => <>(closeCount = 1))
    /\ [](sseCancelled => <>(closeCount = 1))

LastEmitted == emitted[Len(emitted)]

\* C11 (as claimed): in every state in which the consumer has seen the stream
\* exhausted (the event channel closed and drained), the body has been closed.
C11_ClosedBeforeExhaustion ==
    consPc = "exhausted" => closeCount >= 1

\* The body holds no [DONE] line.
NoDone(b) == \A p \in 1..Len(b) : PayloadOf(b[p].content) # DoneMarker

\* C12 (as claimed): on a body that ends at end-of-input with no [DONE] line,
\* without cancellation, the reader emits one event for each valid line, the
\* last line included even when no delimiter follows it, none carrying an
\* error, and the channel is closed when the producer ends.
C12_EOFEmitsAllValidLines ==
    (ProducerReturned /\ ~sseCancelled /\ tail = "eof" /\ NoDone(body)) =>
        LET vp == ValidPositions(body, 1)
        IN  /\ Len(emitted) = Len(vp)
            /\ \A j \in 1..Len(vp) :
                  /\ emitted[j].Value = PayloadOf(body[vp[j]].content)
                  /\ emitted[j].Error = NoError
            /\ prodPc = "done" => chanClosed

\* The producer is inside ReadString and nothing lets it return.
BlockedInRead == prodPc = "read" /\ ReadOutcomes = {}

\* The stream has ended on an event that reports the cancellation, and the
\* body is closed.
EndedOnCancellation ==
    /\ chanClosed /\ closeCount = 1
    /\ emitted # <<>> /\ LastEmitted.Error = "canceled"

\* C13 (as claimed): if the caller has cancelled while the producer is blocked
\* in a read, then, the watcher and the producer being scheduled fairly, the
\* stream ends on an event reporting the cancellation with the body closed.
C13_CancelUnblocksRead ==
    []((BlockedInRead /\ sseCancelled) => <>EndedOnCancellation)

\* C13 where the channel has room for one more event when the caller cancels.
C13_CancelUnblocksReadWithRoom ==
    []((BlockedInRead /\ sseCancelled /\ Len(eventChan) < EventChanCap)
          => <>EndedOnCancellation)

\* The last read failed while the caller's ctx was already cancelled.
ReadFailedUnderCancel == lastRead.err # NoError /\ lastRead.cancelled

\* C14: after a read that failed with the caller's ctx cancelled, whatever the
\* read's own error (closed body, I/O error, end of input), the producer reads
\* no more and the event it sends, the last of the stream, carries the
\* cancellation; no event ever carries the read's error.
C14_CancellationTakesPriority ==
    ReadFailedUnderCancel =>
        /\ prodPc # "read"
        /\ prodPc = "send" => pending = ErrorEvent(index, "canceled")
        /\ ProducerReturned =>
              (emitted # <<>> /\ LastEmitted = ErrorEvent(index, "canceled"))
        /\ \A j \in 1..Len(emitted) : emitted[j].Error \in {NoError, "canceled"}

\* C14 witness: a read hit the end of input after the caller had cancelled,
\* and the stream ended on the cancellation.
C14_Witness ==
    /\ lastRead.err = "EOF" /\ lastRead.cancelled
    /\ chanClosed
    /\ LastEmitted = ErrorEvent(index, "canceled")

\* The position of the first [DONE] line of the body, 0 if it has none.
RECURSIVE FirstDoneFrom(_, _)
FirstDoneFrom(b, p) ==
    IF p > Len(b) THEN 0
    ELSE IF PayloadOf(b[p].content) = DoneMarker THEN p
    ELSE FirstDoneFrom(b, p + 1)
FirstDone(b) == FirstDoneFrom(b, 1)

\* C15: the producer never moves past the first [DONE] line; once ReadString
\* has returned that line the producer has left its loop; no event carries
\* the sentinel or a line at or after it; and the producer's way out (cancel,
\* close of the channel) is never blocked, so the stream ends exhausted.
C15_DoneStopsTheReader ==
    FirstDone(body) > 0 =>
        LET d == FirstDone(body)
        IN  /\ index <= d - 1
            /\ (lastRead.err = NoError /\ index = d - 1 /\ lastRead.data = RawOf(body[d]))
                  => ProducerReturned
            /\ \A j \in 1..Len(emitted) :
                  emitted[j].Error = NoError =>
                      (emitted[j].Value # <<"[DONE]">> /\ emitted[j].Index < d - 1)
            /\ prodPc \in {"cancel", "closeChan"} => ENABLED Producer
            /\ prodPc = "done" => chanClosed

\* C15 witness: [DONE] on the second line with a valid line after it; the
\* stream has ended with the first line's event only.
C15_Witness ==
    /\ Len(body) = 3 /\ FirstDone(body) = 2
    /\ PayloadOf(body[1].content) \notin {Blank, DoneMarker}
    /\ PayloadOf(body[3].content) \notin {Blank, DoneMarker}
    /\ lastRead.err = NoError /\ lastRead.data = RawOf(body[2])
    /\ chanClosed /\ Len(emitted) = 1

\* The last read failed, not with end of input, and the caller had not
\* cancelled.
ReadFailedPlain == lastRead.err \notin {NoError, "EOF"} /\ ~lastRead.cancelled

\* C16: after such a failure the producer reads no more; the event it sends
\* carries the failure; and when it has returned, the events sent are those of
\* the valid lines read before the failure, in order, then that one event.
C16_FailureIsLastEvent ==
    ReadFailedPlain =>
        /\ prodPc # "read"
        /\ prodPc = "send" =>
              /\ pending = ErrorEvent(index, lastRead.err)
              /\ \A j \in 1..Len(emitted) : emitted[j].Error = NoError
        /\ ProducerReturned =>
              LET vp == ValidPositions(SubSeq(body, 1, index), 1)
              IN  emitted = [j \in 1..Len(vp) |->
                                ValueEvent(vp[j] - 1, PayloadOf(body[vp[j]].content))]
                            \o <<ErrorEvent(index, lastRead.err)>>

\* C16 witness: two lines were read and emitted, then the read failed, and
\* the stream has ended.
C16_Witness ==
    /\ ReadFailedPlain /\ chanClosed
    /\ Len(emitted) = 3
    /\ LastEmitted.Error = "io"


\* ====================================================== claims: pkg/streams
\* The calls that yielded an item, in order.
IsItem(o) == o.ok
ItemsOf(outs) == SelectSeq(outs, IsItem)

\* The values of a sequence of results.
ValsOf(outs) == [i \in 1..Len(outs) |-> outs[i].val]

\* f applied to an item, for the chain of conversions ch (innermost first).
RECURSIVE ApplyChain(_, _, _)
ApplyChain(ch, k, v) == IF k = 0 THEN v ELSE conv(ch[k], ApplyChain(ch, k - 1, v))

\* The element type of the outermost stream.
ChainType(ch) == IF ch = <<>> THEN "int" ELSE OutType(ch[Len(ch)])

\* C17 (as claimed): once a call has reported exhaustion or cancellation,
\* every later call on the stream, with the same ctx, reports that outcome
\* again; in particular no item follows a reported cancellation.
C17_OutcomeIsSticky ==
    \A i \in 1..Len(outcomes) : \A j \in (i + 1)..Len(outcomes) :
        ~outcomes[i].ok => outcomes[j] = outcomes[i]

\* C18: the items a (chain of) Map yields are, one for one and in order, the
\* conversions of the items its source yielded; and a drain that ends in
\* exhaustion without cancellation has yielded the conversion of every item
\* sent, in the order sent.
C18_MapPreservesItems ==
    LET got == ItemsOf(outcomes)
        src == ItemsOf(srcOutcomes)
    IN  /\ Len(got) = Len(src)
        /\ \A i \in 1..Len(got) :
              got[i].val = ApplyChain(chain, Len(chain), src[i].val)
        /\ (outcomes # <<>> /\ ~stCancelled
              /\ ~outcomes[Len(outcomes)].ok /\ outcomes[Len(outcomes)].err = "nil")
              => ValsOf(got) = [i \in 1..Len(fed) |-> ApplyChain(chain, Len(chain), fed[i])]

\* C18 witness: two chained Map stages were drained to exhaustion over two
\* items.
C18_Witness ==
    /\ Len(chain) = 2 /\ Len(fed) = 2 /\ ~stCancelled
    /\ Len(outcomes) = 3
    /\ ~outcomes[3].ok /\ outcomes[3].err = "nil"
    /\ Len(ItemsOf(outcomes)) = 2

\* C19: building the stream receives nothing; every next of the outermost
\* stream is one next of the source; exhaustion and cancellation come back
\* as the source reported them, with the zero value and no conversion called;
\* an item comes back converted, each conversion called once.
C19_MapIsLazyComposition ==
    /\ Len(srcOutcomes) = Len(outcomes)
    /\ srcChan = SubSeq(fed, Len(ItemsOf(srcOutcomes)) + 1, Len(fed))
    /\ \A i \in 1..Len(outcomes) :
          LET u == srcOutcomes[i]
              r == outcomes[i]
          IN  /\ r.ok = u.ok /\ r.err = u.err
              /\ u.ok => (r.val = ApplyChain(chain, Len(chain), u.val)
                            /\ r.convs = Len(chain))
              /\ ~u.ok => (r.val = ZeroOf(ChainType(chain)) /\ r.convs = 0)

\* C19 witness: behind two Map stages, one call yielded an item, one reported
\* cancellation and one reported exhaustion.
C19_Witness ==
    /\ Len(chain) = 2
    /\ \E i \in 1..Len(outcomes) : outcomes[i].ok
    /\ \E i \in 1..Len(outcomes) : outcomes[i].err = "canceled"
    /\ \E i \in 1..Len(outcomes) : ~outcomes[i].ok /\ outcomes[i].err = "nil"

\* The results of the next calls Exhaust has made.
DuringExhaust == SubSeq(outcomes, exStart + 1, Len(outcomes))

\* C20: when Exhaust has returned, every next call it made but the last
\* yielded an item; if the last reported exhaustion it returned those items
\* in order with a nil error; if the last reported cancellation it returned a
\* nil slice with the cancellation error.
C20_ExhaustCollectsOrFails ==
    exPc = "done" /\ stPc = "ready" /\ outcomes # <<>> =>
        LET calls == DuringExhaust
            last == calls[Len(calls)]
        IN  /\ Len(calls) >= 1
            /\ \A i \in 1..(Len(calls) - 1) : calls[i].ok
            /\ ~last.ok
            /\ last.err = "nil" =>
                  exRet = [isNil |-> FALSE, items |-> ValsOf(ItemsOf(calls)), err |-> "nil"]
            /\ last.err # "nil" =>
                  exRet = [isNil |-> TRUE, items |-> <<>>, err |-> "canceled"]

\* C20 witness: Exhaust collected an item and then returned the cancellation.
C20_Witness ==
    /\ exPc = "done" /\ stPc = "ready"
    /\ exRet.err = "canceled"
    /\ Len(DuringExhaust) >= 2


\* =============================================== claims: RetryClient.DoRetry
\* The number of exchanges that failed with a transport error.
FailedExchanges == Cardinality({k \in 1..Len(exchanges) : exchanges[k].err # NilError})

\* C21: when DoRetry has returned without cancellation and its last exchange
\* completed without a transport error, it returns that exchange's response,
\* whatever its status, with a nil error; every earlier exchange failed, there
\* was one wait after each of those and none after the last, and the number of
\* exchanges is within maxAttempts.
C21_ReturnsFirstCompletedExchange ==
    (rtPc = "done" /\ ~rtCancelled /\ exchanges # <<>>
        /\ exchanges[Len(exchanges)].err = NilError) =>
        LET a == Len(exchanges)
        IN  /\ 1 <= a /\ a <= rtMax
            /\ rtRet = [resp |-> exchanges[a].resp, err |-> NilError]
            /\ rtRet.resp.attempt = a
            /\ \A k \in 1..(a - 1) : exchanges[k].err # NilError
            /\ rtWaits = a - 1

\* C21, the other way round: an exchange that completed is never followed by
\* another exchange or another wait.
C21_NothingAfterCompletion ==
    [][(exchanges # <<>> /\ exchanges[Len(exchanges)].err = NilError)
          => (exchanges' = exchanges /\ rtWaits' = rtWaits /\ rtPc' = "done")]_vars

\* C21 witness: the second exchange was answered with a status other than 200
\* and DoRetry returned it.
C21_Witness ==
    /\ rtPc = "done" /\ ~rtCancelled
    /\ Len(exchanges) = 2
    /\ rtRet.err = NilError /\ rtRet.resp = Response(400, 2)

\* C22: when DoRetry (maxAttempts >= 1, GetBody set and working, no
\* cancellation) has returned with every exchange failed, it made maxAttempts
\* exchanges and maxAttempts - 1 waits, and returns a nil response with the
\* error that names maxAttempts and wraps the last exchange's error.
C22_AllAttemptsFailed ==
    (rtPc = "done" /\ ~rtCancelled /\ rtMax >= 1 /\ rtHasGetBody
        /\ rtRet.err # GetBodyCallErr
        /\ FailedExchanges = Len(exchanges)) =>
        /\ Len(exchanges) = rtMax
        /\ rtWaits = rtMax - 1
        /\ rtRet.resp = NilResponse
        /\ rtRet.err = AllFailedErr(rtMax, TransportErr(rtMax))
        /\ rtRet.err.n = rtMax /\ rtRet.err.last = exchanges[rtMax].err.n

\* C22 witness: three attempts, all failed.
C22_Witness ==
    /\ rtPc = "done" /\ ~rtCancelled /\ rtMax = 3
    /\ FailedExchanges = 3
    /\ rtRet.err.kind = "all attempts failed"

\* C23: a request without GetBody never leads to an exchange or a wait, and
\* DoRetry returns a nil response with the configuration error.
C23_NoGetBodyRejected ==
    ~rtHasGetBody =>
        /\ exchanges = <<>> /\ rtWaits = 0
        /\ rtPc \in {"entry", "done"}
        /\ rtPc = "done" => rtRet = [resp |-> NilResponse, err |-> NoGetBodyErr]

\* C23 witness: a call with GetBody nil and maxAttempts 3 has returned.
C23_Witness ==
    ~rtHasGetBody /\ rtMax = 3 /\ rtPc = "done" /\ rtRet.err = NoGetBodyErr

\* C24 (as claimed): if the ctx was cancelled while DoRetry was waiting out a
\* delay (the timer created and not yet expired), no exchange is made after
\* that and DoRetry returns the ctx's error.
C24_CancelDuringWait ==
    cancelAt.where \in {"timer", "parked"} =>
        /\ Len(exchanges) = cancelAt.done
        /\ rtPc = "done" => rtRet = [resp |-> NilResponse, err |-> RequestCtxErr]

\* C24 where DoRetry was already blocked in the select when the ctx was
\* cancelled.
C24_CancelWhileParked ==
    cancelAt.where = "parked" =>
        /\ Len(exchanges) = cancelAt.done
        /\ rtPc = "done" /\ rtRet = [resp |-> NilResponse, err |-> RequestCtxErr]


\* ========================================== claims: ChatCompletionStream
\* The reader's event can be decoded; the content it then carries.
Decodable(r) == r.Error = "nil" /\ r.Value # BadJSON
ContentOf(r) == IF Decodable(r) THEN "Hello" ELSE ""

\* C25: the j-th event sent on the returned channel is made from the j-th
\* event of the reader, with its index and timestamp; it carries a failure
\* exactly when that event carried an error or a payload that does not
\* decode; and when the returned channel is closed every event of the reader
\* has been passed on, those after an undecodable one included.
C25_DecodeFailureIsNotFatal ==
    /\ Len(delivered) <= rawNext
    /\ \A j \in 1..Len(delivered) :
          LET r == apiRaw[j]
              e == delivered[j]
          IN  /\ e.index = r.Index /\ e.timestamp = r.Timestamp
              /\ (e.err # "nil") <=> ~Decodable(r)
              /\ e.content = ContentOf(r)
              /\ (r.Error = "nil" /\ ~Decodable(r))
                    => e.err = "failed to unmarshal server-sent event"
    /\ apiChanClosed => Len(delivered) = Len(apiRaw)

\* C25 witness: the first of two events did not decode, the second did, and
\* both were passed on before the channel was closed.
C25_Witness ==
    /\ apiChanClosed /\ Len(apiRaw) = 2
    /\ apiRaw[1].Value = BadJSON /\ Decodable(apiRaw[2])
    /\ Len(delivered) = 2
    /\ delivered[1].err # "nil" /\ delivered[2].err = "nil"

\* C26: once DoRetry has returned a response whose status is not 200, no
\* further exchange is made and the reader is never started; and
\* ChatCompletionStream returns no stream but an error carrying the status
\* code and the body (or the note that the body could not be read).
C26_Non200IsFatal ==
    (rtPc = "done" /\ rtRet.err = NilError /\ rtRet.resp.status # 200) =>
        /\ Len(exchanges) = rtRet.resp.attempt
        /\ ~readerStarted /\ convPc = "idle" /\ delivered = <<>>
        /\ apiPc \in {"retry", "done"}
        /\ apiPc = "done" =>
              /\ ~apiRet.stream
              /\ apiRet.err.kind = "unexpected status code"
              /\ apiRet.err.n = rtRet.resp.status
              /\ apiRet.err.body \in {rtRet.resp.body, "failed to read response body"}

\* C26 witness: the second exchange was answered with 400 and the call
\* returned the error with the body.
C26_Witness ==
    /\ apiPc = "done" /\ rtRet.resp = Response(400, 2)
    /\ apiRet.err.n = 400 /\ apiRet.err.body = "{error: bad request}"


\* ================================================== claims: statistics
\* Metrics has been computed from a non-empty set of durations.
MetricsDone == stsPc = "done" /\ stsIn # <<>>

\* The number of elements of ds that are less than x, and not greater than x.
Below(ds, x) == Cardinality({i \in 1..Len(ds) : ds[i] < x})
UpTo(ds, x) == Cardinality({i \in 1..Len(ds) : ds[i] <= x})

\* x is the element at zero-based position k of ds sorted ascending.
AtRank(ds, k, x) ==
    /\ \E i \in 1..Len(ds) : ds[i] = x
    /\ Below(ds, x) <= k /\ k < UpTo(ds, x)

\* C27: for a non-empty set of n durations, P90 and P95 are the elements at
\* the zero-based positions floor((n-1)*90/100) and floor((n-1)*95/100) of
\* the set sorted ascending.
C27_PercentileIsNearestRank ==
    MetricsDone =>
        LET n == Len(stsIn)
        IN  /\ AtRank(stsIn, ((n - 1) * 90) \div 100, stsMetrics.P90)
            /\ AtRank(stsIn, ((n - 1) * 95) \div 100, stsMetrics.P95)

\* C27 witness: for [1,2,3,4,5] both P90 and P95 are 4.
C27_Witness ==
    /\ stsPc = "done" /\ stsIn = <<1, 2, 3, 4, 5>>
    /\ stsMetrics.P90 = 4 /\ stsMetrics.P95 = 4

\* C27, second witness: with 21 durations the two percentiles differ.
C27_WitnessDiffer ==
    /\ stsPc = "done" /\ stsIn = RampDown(21)
    /\ stsMetrics.P90 = 19 /\ stsMetrics.P95 = 20

\* The sum of the durations.
Total(ds) ==
    LET F[k \in 0..Len(ds)] == IF k = 0 THEN 0 ELSE F[k - 1] + ds[k]
    IN  F[Len(ds)]

\* C28: for a non-empty set of durations in any order, Min is the smallest
\* and Max the largest element, Avg is the sum divided by the count and Med
\* is the middle element of the sorted set for an odd size and the average
\* of the two central elements for an even size (the divisions are those of
\* time.Duration: whole units, the fraction dropped).
C28_MinMaxAvgMed ==
    MetricsDone =>
        LET n == Len(stsIn)
            m == stsMetrics
        IN  /\ \E i \in 1..n : stsIn[i] = m.Min
            /\ \A i \in 1..n : m.Min <= stsIn[i]
            /\ \E i \in 1..n : stsIn[i] = m.Max
            /\ \A i \in 1..n : stsIn[i] <= m.Max
            /\ n * m.Avg <= Total(stsIn) /\ Total(stsIn) < n * (m.Avg + 1)
            /\ IF n % 2 = 1
               THEN AtRank(stsIn, (n - 1) \div 2, m.Med)
               ELSE \E lo, hi \in {stsIn[i] : i \in 1..n} :
                       /\ AtRank(stsIn, (n \div 2) - 1, lo)
                       /\ AtRank(stsIn, n \div 2, hi)
                       /\ 2 * m.Med <= lo + hi /\ lo + hi < 2 * (m.Med + 1)

\* C28 witness: an unsorted set of even size whose central elements differ.
C28_Witness ==
    /\ stsPc = "done" /\ stsIn = <<5, 1, 4, 2>>
    /\ stsMetrics = [Avg |-> 3, Min |-> 1, Med |-> 3, Max |-> 5, P90 |-> 4, P95 |-> 4]

\* The series have been computed from a timingsArray (and not the results,
\* which ComputeResults builds from one).
SeriesDone == stsPc = "done" /\ stsArr # <<>> /\ stsResults = NoResults

\* The runs of a with at least one event, and the position of run i among them.
WithEvents(a) == {i \in 1..Len(a) : Len(a[i].Events) > 0}
RankAmong(S, i) == Cardinality({j \in S : j <= i})

\* C29: TTFTs holds one value for each run with at least one event, in the
\* order of the runs: its first event's timestamp minus its start; a run
\* without events contributes nothing and does not make the computation
\* fail.
C29_TTFTsSkipsEmptyRuns ==
    SeriesDone =>
        LET S == WithEvents(stsArr)
        IN  /\ Len(stsSeries.TTFT) = Cardinality(S)
            /\ \A i \in S :
                  stsSeries.TTFT[RankAmong(S, i)] = stsArr[i].Events[1] - stsArr[i].Start

\* C29 witness: a run without events before a run with events.
C29_Witness ==
    /\ SeriesDone /\ Len(stsArr) = 2
    /\ stsArr[1].Events = <<>> /\ stsArr[2].Events = <<7, 8, 12>>
    /\ stsSeries.TTFT = <<2>>

\* The number of differences run i contributes, and of those before run i.
Gaps(a, i) == IF Len(a[i].Events) > 1 THEN Len(a[i].Events) - 1 ELSE 0
GapsBefore(a, i) ==
    LET F[k \in 0..Len(a)] == IF k = 0 THEN 0 ELSE F[k - 1] + Gaps(a, k)
    IN  F[i - 1]

\* C30: TBTs is the list, run after run, of the differences between
\* consecutive events of the same run: a run with m events contributes
\* max(0, m-1) values; and TTs holds End minus Start for every run.
C30_TBTsPooledPerRun ==
    SeriesDone =>
        LET a == stsArr
        IN  /\ Len(stsSeries.TBT) = GapsBefore(a, Len(a) + 1)
            /\ \A i \in 1..Len(a) : \A k \in 1..Gaps(a, i) :
                  stsSeries.TBT[GapsBefore(a, i) + k] = a[i].Events[k + 1] - a[i].Events[k]
            /\ Len(stsSeries.TT) = Len(a)
            /\ \A i \in 1..Len(a) : stsSeries.TT[i] = a[i].End - a[i].Start

\* C30 witness: a run with three events, then a run with one event.
C30_Witness ==
    /\ SeriesDone /\ Len(stsArr) = 2
    /\ stsArr[1].Events = <<2, 3, 7>> /\ stsArr[2].Events = <<6>>
    /\ stsSeries.TBT = <<1, 4>> /\ stsSeries.TT = <<10, 10>>


\* ================================================== claims: runOneStream
\* runOneStream has built the timings of a run from the drained events.
TimingDone == stsPc = "done" /\ stsEvents # <<>>

\* C31: the timings of a run list the timestamp of every drained event once
\* (none dropped, none twice), by ascending event index, and events of equal
\* index in the order of their arrival.  (An event's timestamp is here the
\* position of its arrival, so it names the event.)
C31_StableSortByIndex ==
    TimingDone =>
        LET n == Len(stsEvents)
            out == stsTiming.Events
        IN  /\ Len(out) = n
            /\ \A k \in 1..n : \E l \in 1..n : out[l] = k
            /\ \A k, l \in 1..n :
                  k < l => \/ stsEvents[out[k]].index < stsEvents[out[l]].index
                           \/ /\ stsEvents[out[k]].index = stsEvents[out[l]].index
                              /\ out[k] < out[l]

\* C31 witness: three events arrive with indices 1, 0, 1; the second is
\* listed first and the two of index 1 keep their arrival order.
C31_Witness ==
    /\ stsPc = "done"
    /\ stsEvents = <<Ev(1, 1), Ev(0, 2), Ev(1, 3)>>
    /\ stsTiming.Events = <<2, 1, 3>>


\* ============================================ claims: runStreams, per slot
\* The runs that have published their timing, and those that have made their
\* attempt at the error slot.
PublishedRuns == {i \in Runs : wres[i].tag = "ok" /\ wpc[i] \in {"reported", "wgdone", "released"}}
AttemptedRuns == {reports[k] : k \in 1..Len(reports)}

\* C32: only the slots the spawner has passed are started, and each once; a
\* started run that has ended either has published one timing or has made
\* one attempt at the error slot, never both and never neither; the timings
\* published are one per successful run, hence at most N; and a worker about to
\* publish finds room in timingsChan, and one about to report its error is
\* never held up.
C32_OneOutcomePerSlot ==
    (N >= 0 /\ C >= 0) =>
        /\ \A i \in Runs : wpc[i] # "idle" => i <= spawnI /\ i <= N
        /\ \A k, l \in 1..Len(reports) : reports[k] = reports[l] => k = l
        /\ \A i \in Runs :
              /\ i \in AttemptedRuns <=>
                    (wres[i].tag = "err" /\ wpc[i] \notin {"idle", "started", "draining", "failed"})
              /\ wpc[i] \in {"reported", "wgdone", "released"} =>
                    (i \in PublishedRuns) # (i \in AttemptedRuns)
              /\ wpc[i] = "ok" => wres[i].tag = "ok" /\ ENABLED WorkerPublish(i)
              /\ wpc[i] = "failed" => wres[i].tag = "err" /\ ENABLED WorkerReportErr(i)
        /\ mainPc # "start" =>
              Len(timingsChan) + Len(timingsArr) = Cardinality(PublishedRuns)
        /\ Len(timingsChan) + Len(timingsArr) <= N

\* C32, as steps: a slot is started only from idle.
C32_StartedOnce ==
    [][\A i \in Runs : (wpc'[i] = "started" /\ wpc[i] # "started") => wpc[i] = "idle"]_vars

\* C32 witness: both runs have ended, the first with a published timing and
\* the second with an attempt at the error slot.
C32_Witness ==
    /\ N = 2
    /\ wpc[1] = "released" /\ wpc[2] = "released"
    /\ wres[1].tag = "ok" /\ reports = <<2>>
    /\ Len(timingsChan) + Len(timingsArr) = 1


\* ============================================ claims: runStreams, permits
\* The timings published so far.
PublishedCount == Len(timingsChan) + Len(timingsArr)

\* C33: the permits held are those of the workers started and not yet
\* released, in every state; a released worker has published its timing or
\* made its attempt at the error slot; and a permit is given back only by
\* the step of a worker that holds one and has finished its run, one permit
\* per step.
C33_PermitHeldForWholeRun ==
    /\ [](N >= 0 /\ C >= 0 =>
             /\ sem = Cardinality(Running)
             /\ \A i \in Runs : wpc[i] = "released" =>
                   \/ i \in AttemptedRuns
                   \/ wres[i].tag = "ok" /\ PublishedCount >= 1
             /\ mainPc # "start" =>
                   Cardinality({i \in Runs : wres[i].tag = "ok" /\ wpc[i] = "released"})
                      <= PublishedCount)
    /\ [][sem' < sem =>
             /\ sem' = sem - 1
             /\ \E i \in Runs :
                   /\ wpc[i] \notin {"idle", "started", "draining", "ok", "failed", "claimed"}
                   /\ wpc[i] # "released" /\ wpc'[i] = "released"
                   /\ \A j \in Runs \ {i} : wpc'[j] = wpc[j]]_vars

\* C33 witness: a worker has published its timing and still holds its
\* permit, while the spawner waits for a permit for the next run.
C33_Witness ==
    /\ N = 2 /\ C = 1 /\ sem = 1 /\ spawnI = 1
    /\ wpc[1] = "reported" /\ wres[1].tag = "ok"
    /\ PublishedCount = 1


\* ======================================== claims: runStreams, termination
\* The slots the spawner skipped, and those whose worker has called wg.Done.
SkippedRuns == {i \in Runs : i <= spawnI /\ wpc[i] = "idle"}
CountedDown == {i \in Runs : wpc[i] \in {"wgdone", "released"}}

\* C34: for N >= 0 and C >= 1, under fair scheduling and with every started
\* run ending, runStreams returns; the completion counter is N less one for
\* every slot skipped or finished by its worker, a slot never being both,
\* and is never negative; and whenever the signal is cancelled and slots
\* remain, the spawner's skip step can be taken, with or without a free
\* permit.
C34_AlwaysTerminates ==
    /\ (N >= 0 /\ C >= 1) => <>(mainPc = "done")
    /\ []((N >= 0 /\ C >= 1 /\ mainPc # "start") =>
             /\ wg >= 0
             /\ SkippedRuns \cap CountedDown = {}
             /\ wg = N - Cardinality(SkippedRuns) - Cardinality(CountedDown)
             /\ (spawnI < N /\ CtxDone) => ENABLED SpawnerSkip
             /\ mainPc = "done" => wg = 0 /\ spawnI = N)

\* C34 witness: the call has returned after one run was finished by its
\* worker and the other was skipped by the spawner, which was waiting for the
\* only permit when the run failed and cancelled the signal.
C34_Witness ==
    /\ N = 2 /\ C = 1 /\ mainPc = "done" /\ ~extCancelled
    /\ wpc[1] = "released" /\ wpc[2] = "idle" /\ spawnI = 2 /\ wg = 0


\* ================================== claims: RetryClient.DoRetry, the body
\* C35: every pass of the loop calls GetBody once, before its exchange; each
\* exchange sends the body handed out by the call of its own pass, so no two
\* exchanges send the same body; and there are as many exchanges as calls of
\* GetBody, except that a call that fails ends DoRetry without an exchange.
C35_FreshBodyPerAttempt ==
    /\ \A k \in 1..Len(exchanges) : exchanges[k].body = k
    /\ \A k, l \in 1..Len(exchanges) : exchanges[k].body = exchanges[l].body => k = l
    /\ gbCalls = Len(exchanges) + (IF rtRet.err = GetBodyCallErr THEN 1 ELSE 0)
    /\ rtPc = "attempt" => gbCalls = rtI
    /\ rtPc \in {"timer", "parked"} => gbCalls = rtI + 1
    /\ ~rtHasGetBody => gbCalls = 0

\* C35 witness: three exchanges were made, each with the body of its own
\* GetBody call.
C35_Witness ==
    /\ rtPc = "done" /\ Len(exchanges) = 3 /\ gbCalls = 3
    /\ exchanges[3].body = 3 /\ exchanges[1].body = 1


\* ============================= claims: ReadServerSentEvents, its goroutines
\* C36 (as claimed): once the caller has cancelled, the watcher and the
\* producer both end, the two being scheduled fairly, whatever the consumer
\* does.
C36_LeakFree ==
    [](sseCancelled => <>(watcherPc = "done" /\ prodPc = "done"))

\* C36 for the watcher alone: it ends once the caller has cancelled or the
\* producer has run its deferred cancel().
C36_WatcherEnds ==
    []((sseCancelled \/ prodCancelled) => <>(watcherPc = "done"))

\* C36 for the producer while its send can proceed: after a cancellation it
\* ends, or it stands at a send on a full channel.
C36_ProducerEndsUnlessSendBlocked ==
    [](sseCancelled =>
          <>(prodPc = "done" \/ (prodPc = "send" /\ Len(eventChan) = EventChanCap)))


\* ================================ claims: ReadServerSentEvents, its events
\* C37: in every state, whatever the body, its end and the cancellation, the
\* events sent so far have strictly increasing indices, and each carries
\* either a payload that is neither empty nor [DONE] and no failure, or a
\* failure and no payload.
C37_IndicesIncreaseOnePayloadOrFailure ==
    /\ \A k, l \in 1..Len(emitted) : k < l => emitted[k].Index < emitted[l].Index
    /\ \A k \in 1..Len(emitted) :
          LET e == emitted[k]
          IN  \/ e.Error = "nil" /\ e.Value # <<>> /\ e.Value # <<"[DONE]">>
              \/ e.Error # "nil" /\ e.Value = <<>>

\* C37 witness: a payload, a blank line, then a read failure: two events,
\* with indices 0 and 2, the second carrying the failure.
C37_Witness ==
    /\ Len(emitted) = 2
    /\ emitted[1].Error = "nil" /\ emitted[1].Index = 0
    /\ emitted[2].Error = "io" /\ emitted[2].Index = 2


\* ========================================== claims: statistics, the order
\* C38: for a non-empty set of non-negative durations the Metrics are
\* ordered Min <= Med <= Max, Min <= P90 <= P95 <= Max and Min <= Avg <= Max;
\* for the empty set Metrics returns with every field zero.
C38_MetricsAreOrdered ==
    (stsPc = "done" /\ stsMetrics # NoMetrics) =>
        LET m == stsMetrics
        IN  IF stsIn = <<>>
            THEN /\ m.Avg = 0 /\ m.Min = 0 /\ m.Med = 0
                 /\ m.Max = 0 /\ m.P90 = 0 /\ m.P95 = 0
            ELSE /\ \A i \in 1..Len(stsIn) : stsIn[i] >= 0
                 /\ m.Min <= m.Med /\ m.Med <= m.Max
                 /\ m.Min <= m.P90 /\ m.P90 <= m.P95 /\ m.P95 <= m.Max
                 /\ m.Min <= m.Avg /\ m.Avg <= m.Max

\* C38 witness: twenty-one durations for which all the inequalities but
\* one are strict.
C38_Witness ==
    /\ stsPc = "done" /\ stsIn = RampDown(21)
    /\ stsMetrics.Min = 1 /\ stsMetrics.Med = 11 /\ stsMetrics.Avg = 11
    /\ stsMetrics.P90 = 19 /\ stsMetrics.P95 = 20 /\ stsMetrics.Max = 21

\* C38, the empty set: Metrics has returned the zero Metrics.
C38_WitnessEmpty ==
    stsPc = "done" /\ stsIn = <<>> /\ stsMetrics = ZeroMetrics


\* ================================ claims: BenchmarkStream, order of the runs
\* The timings arr as they would have been collected in the order q.
Reordered(arr, q) == [i \in 1..Len(arr) |-> arr[q[i]]]

\* C39: the results built from the collected timings are those built from
\* the same timings collected in any other order; and Metrics leaves the
\* durations it is called on as they were.
C39_ResultsIgnoreCompletionOrder ==
    /\ [](stsPc = "done" /\ stsResults # NoResults =>
             \A q \in Permutations(1..Len(stsArr)) :
                ResultsOf(Reordered(stsArr, q)) = stsResults)
    /\ [][stsPc = "metrics" => stsIn' = stsIn]_vars

\* C39 witness: two runs with different timings; the results are those of
\* either order of collection.
C39_Witness ==
    /\ stsPc = "done" /\ stsResults # NoResults /\ Len(stsArr) = 2
    /\ stsArr[1].Events = <<7, 8, 12>> /\ stsArr[2].Events = <<1>>
    /\ stsResults.TTFT.Min = 1 /\ stsResults.TTFT.Max = 2
    /\ stsResults = ResultsOf(<<stsArr[2], stsArr[1]>>)

\* ChatCompletionStream obtained a response whose status is not 200 and
\* has returned the error.
ReturnedStatusError ==
    /\ apiPc = "done"
    /\ rtPc = "done" /\ rtRet.err = NilError
    /\ rtRet.resp.status # 200

\* C40: on every path on which ChatCompletionStream obtained a response the
\* response body is closed: once the status error has been returned when the
\* status is not 200, and once the returned stream has finished when it is
\* 200; no body is left open after the call and its stream have finished.
C40_BodyClosedOnEveryPath ==
    /\ ReturnedStatusError => bodyCloses >= 1
    /\ apiChanClosed => bodyCloses >= 1

\* The part of C40 that the code keeps: with status 200 the body has been
\* closed by the time the returned channel is closed.
C40_ClosedAfterStream == apiChanClosed => bodyCloses >= 1

\* A stream that finished with its body closed by the reader's watcher and
\* by the converter.
C40_Witness ==
    /\ apiChanClosed /\ readerClosed
    /\ bodyCloses = 2

====
